---- MODULE Spec2Model ----
(***************************************************************************)
(* State-machine model of the GPS L1 C/A acquisition block                 *)
(* (pcps_sd_acquisition_cc) and of the CADLL tracking block                *)
(* (Gps_L1_Ca_Dll_Pll_CADLL_Tracking_cc).                                  *)
(*                                                                         *)
(* Numeric conventions.  Correlation energies |IFFT|^2 are drawn as        *)
(* multiples q * fft_size^4 of the scale factor the code divides by, so    *)
(* that the normalised magnitudes are the integers q.  The quotient        *)
(* d_mag / d_input_power is kept as an exact fraction in lowest terms.     *)
(* Doppler frequencies are integers (Hz).                                  *)
(***************************************************************************)
EXTENDS Integers, Sequences, FiniteSets, TLC

\* ------------------------------------------------------------------ bounds
MaxSampledMs   == 2     \* sampled_ms ranges over 1..MaxSampledMs
MaxDwells      == 2     \* max_dwells ranges over 0..MaxDwells
MaxDopplerMax  == 1     \* doppler_max ranges over 0..MaxDopplerMax
MaxPeak        == 2     \* peak ranges over 1..MaxPeak
MaxThreshold   == 1     \* threshold ranges over 0..MaxThreshold
MaxMag         == 3     \* normalised correlation energies range over 0..MaxMag
MaxPower       == 1     \* input_power ranges over 0..MaxPower
SmallCells     == 2     \* cells of the search grid in multi-dwell runs
MaxCells       == 4     \* cells of the search grid in single-dwell runs
MaxItems       == 2     \* ninput_items[0] ranges over 1..MaxItems
MaxConsumed    == 4     \* input items consumed by the acquisition in a run
GridMaxDoppler == 9     \* doppler_max range of the Doppler-grid specification
GridMaxStep    == 6     \* doppler_step range of the Doppler-grid specification
MaxCarrErr     == 1     \* magnitude of the PLL filter output (Hz)
MaxCodeErr     == 1     \* magnitude of the DLL filter outputs, in 1/Sub samples per PRN period
MaxAcqDoppler  == 1     \* magnitude of the Acq_doppler_hz handed to tracking (Hz)
MaxTrkConsumed == 160   \* input samples consumed by the tracking in a run
MaxQueue       == 2     \* messages held by the global queue
MaxDllOut      == 140   \* a large DLL filter output, in 1/Sub samples per PRN period
MaxSpacing == 3          \* largest configured early-late spacing, in half chips
MaxBitMag == 2           \* largest |IFFT|^2 / fft_size^4 of the two-bin bit-transition runs
MaxLockConsumed == 35700  \* input samples consumed in a run of the lock detector

\* ------------------------------------------------- configuration constants
samples_per_ms == 2

\* Tracking works on a scaled-down signal: a code of 8 chips at 16 chips/s
\* (one PRN period = 1/2 s) sampled at 64 samples/s, so that one period is
\* 32 samples, and a carrier of 64 Hz, so that 1 Hz of Doppler shortens the
\* period by about half a sample.  Sample quantities with a fractional part
\* (code phases, K_blk) are counted in units of 1/Sub sample.
GPS_L1_CA_CODE_LENGTH_CHIPS == 8
GPS_L1_CA_CODE_RATE_HZ == 16
GPS_L1_FREQ_HZ == 64
fs_in == 64
vector_length == 32
Sub == 4

CN0_ESTIMATION_SAMPLES == 20
MAXIMUM_LOCK_FAIL_COUNTER == 50

\* ---------------------------------------------------------------- helpers
Abs(x) == IF x < 0 THEN -x ELSE x

RECURSIVE Gcd(_, _)
Gcd(a, b) == IF b = 0 THEN a ELSE Gcd(b, a % b)

\* float division a / b (b > 0) as an exact fraction in lowest terms
FDiv(a, b) == LET g == Gcd(a, b) IN [num |-> a \div g, den |-> b \div g]

\* float comparison x < y of two fractions
FLess(x, y) == x.num * y.den < y.num * x.den

\* float comparison x > t of a fraction with an integer-valued float
FGreater(x, t) == x.num > t * x.den

FZero == [num |-> 0, den |-> 1]

\* ------------------------------------------------------------------ state
VARIABLES
    \* acquisition block: construction parameters and setters
    d_sampled_ms, d_samples_per_code, d_fft_size, d_max_dwells,
    d_doppler_max, d_doppler_step, d_bit_transition_flag, d_peak, d_threshold,
    \* acquisition block: members
    d_state, d_active, d_well_count, d_sample_counter,
    d_mag, d_mag_2nd_highest, d_input_power, d_test_statistics,
    d_num_doppler_bins, d_grid_doppler_wipeoffs,
    d_gnss_synchro, d_channel_internal_queue,
    \* acquisition block: what the last general_work call saw and computed
    acq_call, acq_consumed, acq_activations, magnitude, peaks, higher_peaks,
    found_peak

VARIABLES
    \* tracking block: members (a record), the queue it posts to, and what
    \* the last general_work call did
    trk, d_queue, trk_call, trk_consumed, trk_out,
    \* the number of input samples the run may consume, and the history of
    \* the lock detector since the last start_tracking
    trk_limit, lock_hist

trkVars == <<trk, d_queue, trk_call, trk_consumed, trk_out, trk_limit,
             lock_hist>>

acqCfg == <<d_sampled_ms, d_samples_per_code, d_fft_size, d_max_dwells,
            d_doppler_max, d_doppler_step, d_bit_transition_flag, d_peak,
            d_threshold>>
acqGrid == <<d_num_doppler_bins, d_grid_doppler_wipeoffs>>
acqDwell == <<magnitude, peaks, higher_peaks, found_peak>>
acqVars == <<acqCfg, acqGrid, acqDwell, d_state, d_active, d_well_count,
             d_sample_counter, d_mag, d_mag_2nd_highest, d_input_power,
             d_test_statistics, d_gnss_synchro, d_channel_internal_queue,
             acq_call, acq_consumed, acq_activations>>

vars == <<acqVars, trkVars>>

\* ------------------------------------------------- acquisition: init()
\* variant: the counting loop stops before doppler_max
RECURSIVE CountDopplerBins_Exclusive(_, _, _)
CountDopplerBins_Exclusive(doppler, dmax, step) ==
    IF doppler < dmax
    THEN 1 + CountDopplerBins_Exclusive(doppler + step, dmax, step)
    ELSE 0

\* the counting loop of init(): doppler = -doppler_max; doppler <= doppler_max
RECURSIVE CountDopplerBins(_, _, _)
CountDopplerBins(doppler, dmax, step) ==
    IF doppler <= dmax THEN 1 + CountDopplerBins(doppler + step, dmax, step)
    ELSE 0

\* Doppler of grid index k, as init() and the search loop both compute it
DopplerOfIndex(k) == (-d_doppler_max) + d_doppler_step * k

\* the wipe-off of index k is the conjugated carrier at d_freq + doppler; it
\* is represented by the Doppler it was built for
init ==
    /\ d_num_doppler_bins = 0
    /\ d_gnss_synchro' = [d_gnss_synchro EXCEPT !.Acq_delay_samples = 0,
                                                !.Acq_doppler_hz = 0,
                                                !.Acq_samplestamp_samples = 0]
    /\ d_mag' = 0
    /\ d_mag_2nd_highest' = 0
    /\ d_input_power' = 0
    /\ d_num_doppler_bins' =
           CountDopplerBins(-d_doppler_max, d_doppler_max, d_doppler_step)
    /\ d_grid_doppler_wipeoffs' =
           [k \in 0 .. (d_num_doppler_bins' - 1) |-> DopplerOfIndex(k)]
    /\ UNCHANGED <<acqCfg, acqDwell, d_state, d_active, d_well_count,
                   d_sample_counter, d_test_statistics,
                   d_channel_internal_queue, acq_call, acq_consumed,
                   acq_activations>>

\* ------------------------------------- acquisition: general_work, case 0
\* variant: the call leaves state 0 whether or not the block is active
StateAfterIdle_IgnoringActive(active) == 1

\* d_state after a call made in state 0
StateAfterIdle(active) == IF active THEN 1 ELSE 0

\* variant: the counter advances by one per item
SampleCounterAfterItems_PerItem(counter, fft_size, nitems) == counter + nitems

\* d_sample_counter += d_fft_size * ninput_items[0]
SampleCounterAfterItems(counter, fft_size, nitems) == counter + fft_size * nitems

GeneralWorkIdle(nitems) ==
    /\ d_state = 0
    /\ acq_consumed + nitems <= MaxConsumed
    /\ IF d_active
       THEN /\ d_gnss_synchro' = [d_gnss_synchro EXCEPT
                                     !.Acq_delay_samples = 0,
                                     !.Acq_doppler_hz = 0,
                                     !.Acq_samplestamp_samples = 0]
            /\ d_well_count' = 0
            /\ d_mag' = 0
            /\ d_mag_2nd_highest' = 0
            /\ d_input_power' = 0
            /\ d_test_statistics' = FZero
       ELSE UNCHANGED <<d_gnss_synchro, d_well_count, d_mag,
                        d_mag_2nd_highest, d_input_power, d_test_statistics>>
    /\ d_state' = StateAfterIdle(d_active)
    /\ d_sample_counter' =
           SampleCounterAfterItems(d_sample_counter, d_fft_size, nitems)
    /\ acq_consumed' = acq_consumed + nitems
    /\ acq_activations' = acq_activations + (IF d_active THEN 1 ELSE 0)
    /\ acq_call' = "idle"
    /\ magnitude' = <<>>
    /\ peaks' = <<>>
    /\ higher_peaks' = {}
    /\ found_peak' = FALSE
    /\ UNCHANGED <<acqCfg, acqGrid, d_active, d_channel_internal_queue>>

\* ------------------------------------- acquisition: general_work, case 1
fft_normalization_factor == d_fft_size * d_fft_size

\* the divisor the code applies to |IFFT|^2
MagnitudeScale == fft_normalization_factor * fft_normalization_factor

\* threshold_spoofing = d_threshold * d_input_power * (norm * norm)
ThresholdSpoofing(power) == d_threshold * power * MagnitudeScale

\* volk_32f_index_max_16u: index of the first maximum of a row
IndexMax(row) ==
    CHOOSE i \in DOMAIN row :
        /\ \A j \in DOMAIN row : row[j] <= row[i]
        /\ \A j \in DOMAIN row : j < i => row[j] < row[i]

\* the entry written for cell (k, i): peaks[tmp] = {code phase, doppler, ...}
PeakEntry(k, i, counter) ==
    [code_phase |-> i % d_samples_per_code,
     doppler |-> DopplerOfIndex(k),
     sample_counter |-> counter]

\* the std::map filled by the inner loop over all bins: one entry per
\* distinct normalised magnitude; a later cell with the same magnitude
\* overwrites the earlier one
PeaksOf(grid, power, counter) ==
    LET above == {c \in (DOMAIN grid) \X (0 .. (d_fft_size - 1)) :
                      grid[c[1]][c[2]] > ThresholdSpoofing(power)}
        key(c) == grid[c[1]][c[2]] \div MagnitudeScale
        later(c1, c2) == c1[1] > c2[1] \/ (c1[1] = c2[1] /\ c1[2] >= c2[2])
        last(v) == CHOOSE c \in above :
                       /\ key(c) = v
                       /\ \A c2 \in above : key(c2) = v => later(c, c2)
    IN [v \in {key(c) : c \in above} |->
            PeakEntry(last(v)[1], last(v)[2], counter)]

\* variant: the maximum of every dwell is stored, as without bit transition
RecordMaximum_AlwaysStore(s, magt, indext, doppler, power, counter) ==
    IF s.mag < magt
    THEN [mag |-> magt,
          mag_2nd |-> s.mag,
          ts |-> FDiv(magt, power),
          synchro |-> [Acq_delay_samples |-> indext % d_samples_per_code,
                       Acq_doppler_hz |-> doppler,
                       Acq_samplestamp_samples |-> counter]]
    ELSE s

\* variant: the index of the maximum is stored without the reduction
\* modulo d_samples_per_code
RecordMaximum_NoModulo(s, magt, indext, doppler, power, counter) ==
    IF s.mag < magt
    THEN LET ratio == FDiv(magt, power)
             store == FLess(s.ts, ratio) \/ ~d_bit_transition_flag
         IN [mag |-> magt,
             mag_2nd |-> s.mag,
             ts |-> IF store THEN ratio ELSE s.ts,
             synchro |-> IF store
                         THEN [Acq_delay_samples |-> indext,
                               Acq_doppler_hz |-> doppler,
                               Acq_samplestamp_samples |-> counter]
                         ELSE s.synchro]
    ELSE s

\* step 4 of one Doppler bin: record the maximum peak
RecordMaximum(s, magt, indext, doppler, power, counter) ==
    IF s.mag < magt
    THEN LET ratio == FDiv(magt, power)
             store == FLess(s.ts, ratio) \/ ~d_bit_transition_flag
         IN [mag |-> magt,
             mag_2nd |-> s.mag,
             ts |-> IF store THEN ratio ELSE s.ts,
             synchro |-> IF store
                         THEN [Acq_delay_samples |-> indext % d_samples_per_code,
                               Acq_doppler_hz |-> doppler,
                               Acq_samplestamp_samples |-> counter]
                         ELSE s.synchro]
    ELSE s

\* the Doppler frequency search loop, bins k .. d_num_doppler_bins - 1
RECURSIVE DopplerLoop(_, _, _, _, _)
DopplerLoop(k, grid, power, counter, s) ==
    IF k >= d_num_doppler_bins THEN s
    ELSE LET indext == IndexMax(grid[k])
             magt == grid[k][indext] \div MagnitudeScale
         IN DopplerLoop(k + 1, grid, power, counter,
                RecordMaximum(s, magt, indext, DopplerOfIndex(k), power, counter))

\* keys of the map in the order of the reverse iterator
RECURSIVE Descending(_)
Descending(S) ==
    IF S = {} THEN <<>>
    ELSE LET m == CHOOSE x \in S : \A y \in S : y <= x
         IN <<m>> \o Descending(S \ {m})

\* the test of a candidate against the set higher_peaks; a pair of the set
\* is <<code phase, doppler>> and the code reads it->first for both values
UseThisPeak(higher, code_phase, c_doppler) ==
    \A h \in higher :
        LET next_code_phase == h[1]
            next_doppler == h[1]
        IN ~(Abs(next_code_phase - code_phase) < 2 * d_samples_per_code
             /\ next_doppler = c_doppler)

\* the loop over the ranked peaks, from position n with i peaks inserted
RECURSIVE HigherPeaksLoop(_, _, _, _, _)
HigherPeaksLoop(pk, ranked, n, i, higher) ==
    IF n > Len(ranked)
    THEN [higher |-> higher, found |-> FALSE, key |-> 0]
    ELSE LET values == pk[ranked[n]]
         IN IF i < d_peak
            THEN HigherPeaksLoop(pk, ranked, n + 1, i + 1,
                     higher \cup {<<values.code_phase, values.doppler>>})
            ELSE IF UseThisPeak(higher, values.code_phase, values.doppler)
                 THEN [higher |-> higher, found |-> TRUE, key |-> ranked[n]]
                 ELSE HigherPeaksLoop(pk, ranked, n + 1, i, higher)

\* variant: a test statistic equal to the threshold is a detection
Decision_AtOrAboveThreshold(bit_transition, aux, found, ts, threshold, well_count, max_dwells) ==
    LET reached == ts.num >= threshold * ts.den
    IN IF ~bit_transition
       THEN IF aux /\ ~found THEN 3
            ELSE IF reached THEN 2
            ELSE IF well_count = max_dwells THEN 3
            ELSE 1
       ELSE IF well_count = max_dwells
            THEN IF aux /\ ~found THEN 3
                 ELSE IF reached THEN 2
                 ELSE 3
            ELSE 1

\* variant: with bit_transition a missing auxiliary peak ends the
\* acquisition at any dwell
Decision_NoPeakAtAnyDwell(bit_transition, aux, found, ts, threshold, well_count, max_dwells) ==
    IF aux /\ ~found THEN 3
    ELSE IF ~bit_transition
         THEN IF FGreater(ts, threshold) THEN 2
              ELSE IF well_count = max_dwells THEN 3
              ELSE 1
         ELSE IF well_count = max_dwells
              THEN IF FGreater(ts, threshold) THEN 2 ELSE 3
              ELSE 1

\* variant: the decision ignores the auxiliary-peak mode
Decision_WithoutAuxiliaryTest(bit_transition, aux, found, ts, threshold, well_count, max_dwells) ==
    IF ~bit_transition
    THEN IF FGreater(ts, threshold) THEN 2
         ELSE IF well_count = max_dwells THEN 3
         ELSE 1
    ELSE IF well_count = max_dwells
         THEN IF FGreater(ts, threshold) THEN 2 ELSE 3
         ELSE 1

\* d_state at the end of a dwell
Decision(bit_transition, aux, found, ts, threshold, well_count, max_dwells) ==
    IF ~bit_transition
    THEN IF aux /\ ~found THEN 3
         ELSE IF FGreater(ts, threshold) THEN 2
         ELSE IF well_count = max_dwells THEN 3
         ELSE 1
    ELSE IF well_count = max_dwells
         THEN IF aux /\ ~found THEN 3
              ELSE IF FGreater(ts, threshold) THEN 2
              ELSE 3
         ELSE 1

\* input blocks: the power estimate of the block and its correlation
\* energies per Doppler bin and code phase; a block of zero power
\* correlates to zero everywhere
InputBlocks ==
    {b \in [power : 0 .. MaxPower,
            grid : [0 .. (d_num_doppler_bins - 1) ->
                       [0 .. (d_fft_size - 1) ->
                           {q * MagnitudeScale : q \in 0 .. MaxMag}]]] :
        b.power = 0 =>
            \A k \in DOMAIN b.grid : \A i \in DOMAIN b.grid[k] : b.grid[k][i] = 0}

\* the dwell proper: what general_work computes in case 1 from the members
\* and one input block, before it updates them
DwellResult(block) ==
    LET counter == d_sample_counter + d_fft_size
        aux == d_peak > 1
        s0 == [mag |-> 0, mag_2nd |-> 0, ts |-> d_test_statistics,
               synchro |-> [Acq_delay_samples |-> d_gnss_synchro.Acq_delay_samples,
                            Acq_doppler_hz |-> d_gnss_synchro.Acq_doppler_hz,
                            Acq_samplestamp_samples |->
                                d_gnss_synchro.Acq_samplestamp_samples]]
    IN LET pk == PeaksOf(block.grid, block.power, counter)
           s1 == DopplerLoop(0, block.grid, block.power, counter, s0)
       IN LET sel == IF aux /\ DOMAIN pk # {}
                     THEN HigherPeaksLoop(pk, Descending(DOMAIN pk), 1, 0, {})
                     ELSE [higher |-> {}, found |-> FALSE, key |-> 0]
          IN [peaks |-> pk,
              higher |-> sel.higher,
              found |-> sel.found,
              mag |-> s1.mag,
              mag_2nd |-> s1.mag_2nd,
              ts |-> IF sel.found THEN FDiv(sel.key, block.power) ELSE s1.ts,
              synchro |-> IF sel.found
                          THEN [Acq_delay_samples |-> pk[sel.key].code_phase,
                                Acq_doppler_hz |-> pk[sel.key].doppler,
                                Acq_samplestamp_samples |->
                                    pk[sel.key].sample_counter]
                          ELSE s1.synchro]

GeneralWorkDwell(block) ==
    /\ d_state = 1
    /\ acq_consumed + 1 <= MaxConsumed
    /\ \E r \in {DwellResult(block)} :
          /\ d_sample_counter' = d_sample_counter + d_fft_size
          /\ d_well_count' = d_well_count + 1
          /\ d_input_power' = block.power
          /\ d_mag' = r.mag
          /\ d_mag_2nd_highest' = r.mag_2nd
          /\ d_test_statistics' = r.ts
          /\ d_gnss_synchro' = [d_gnss_synchro EXCEPT
                 !.Acq_delay_samples = r.synchro.Acq_delay_samples,
                 !.Acq_doppler_hz = r.synchro.Acq_doppler_hz,
                 !.Acq_samplestamp_samples = r.synchro.Acq_samplestamp_samples]
          /\ magnitude' = block.grid
          /\ peaks' = r.peaks
          /\ higher_peaks' = r.higher
          /\ found_peak' = r.found
          /\ d_state' = Decision(d_bit_transition_flag, d_peak > 1, r.found,
                                 r.ts, d_threshold, d_well_count + 1,
                                 d_max_dwells)
    /\ acq_consumed' = acq_consumed + 1
    /\ acq_call' = "dwell"
    /\ UNCHANGED <<acqCfg, acqGrid, d_active, d_channel_internal_queue,
                   acq_activations>>

\* a dwell on a block that holds a NaN sample: the power estimate and every
\* |IFFT|^2 value are NaN and every comparison with them is false, so no
\* peak is collected and no maximum is recorded; the rest of case 1 runs
GeneralWorkDwellNaN ==
    /\ d_state = 1
    /\ acq_consumed + 1 <= MaxConsumed
    /\ d_sample_counter' = d_sample_counter + d_fft_size
    /\ d_well_count' = d_well_count + 1
    /\ d_input_power' = "NaN"
    /\ d_mag' = 0
    /\ d_mag_2nd_highest' = 0
    /\ magnitude' = <<>>
    /\ peaks' = <<>>
    /\ higher_peaks' = {}
    /\ found_peak' = FALSE
    /\ d_state' = Decision(d_bit_transition_flag, d_peak > 1, FALSE,
                           d_test_statistics, d_threshold, d_well_count + 1,
                           d_max_dwells)
    /\ acq_consumed' = acq_consumed + 1
    /\ acq_call' = "dwell_nan"
    /\ UNCHANGED <<acqCfg, acqGrid, d_active, d_channel_internal_queue,
                   acq_activations, d_test_statistics, d_gnss_synchro>>

\* --------------------------------- acquisition: general_work, cases 2, 3
\* variant: the two message codes exchanged
AcquisitionMessage_Swapped(state) == IF state = 2 THEN 2 ELSE 1

\* acquisition_message of the case that runs in d_state (2 or 3)
AcquisitionMessage(state) == IF state = 2 THEN 1 ELSE 2

GeneralWorkDeclare(nitems) ==
    /\ d_state \in {2, 3}
    /\ acq_consumed + nitems <= MaxConsumed
    /\ d_active' = FALSE
    /\ d_state' = 0
    /\ d_sample_counter' =
           SampleCounterAfterItems(d_sample_counter, d_fft_size, nitems)
    /\ acq_consumed' = acq_consumed + nitems
    /\ d_channel_internal_queue' =
           Append(d_channel_internal_queue, AcquisitionMessage(d_state))
    /\ acq_call' = IF d_state = 2 THEN "positive" ELSE "negative"
    /\ magnitude' = <<>>
    /\ peaks' = <<>>
    /\ higher_peaks' = {}
    /\ found_peak' = FALSE
    /\ UNCHANGED <<acqCfg, acqGrid, d_well_count, d_mag, d_mag_2nd_highest,
                   d_input_power, d_test_statistics, d_gnss_synchro,
                   acq_activations>>

GeneralWorkPositive(nitems) == d_state = 2 /\ GeneralWorkDeclare(nitems)

GeneralWorkNegative(nitems) == d_state = 3 /\ GeneralWorkDeclare(nitems)

\* ------------------------------------------- acquisition: set_active(true)
set_active ==
    /\ d_num_doppler_bins > 0
    /\ ~d_active
    /\ d_active' = TRUE
    /\ UNCHANGED <<acqCfg, acqGrid, acqDwell, d_state, d_well_count,
                   d_sample_counter, d_mag, d_mag_2nd_highest, d_input_power,
                   d_test_statistics, d_gnss_synchro,
                   d_channel_internal_queue, acq_call, acq_consumed,
                   acq_activations>>

\* ------------------------------------------- acquisition: specification
\* state after the constructor, for one choice of the parameters
AcqConstructed(sampled_ms, max_dwells, doppler_max, doppler_step, bit_transition_flag, peak, threshold) ==
    /\ d_sampled_ms = sampled_ms
    /\ d_samples_per_code = samples_per_ms
    /\ d_fft_size = sampled_ms * samples_per_ms
    /\ d_max_dwells = max_dwells
    /\ d_doppler_max = doppler_max
    /\ d_doppler_step = doppler_step
    /\ d_bit_transition_flag = bit_transition_flag
    /\ d_peak = peak
    /\ d_threshold = threshold
    /\ d_state = 0
    /\ d_active = FALSE
    /\ d_well_count = 0
    /\ d_sample_counter = 0
    /\ d_mag = 0
    /\ d_mag_2nd_highest = 0
    /\ d_input_power = 0
    /\ d_num_doppler_bins = 0
    /\ d_grid_doppler_wipeoffs = <<>>
    /\ d_channel_internal_queue = <<>>
    /\ acq_call = "none"
    /\ acq_consumed = 0
    /\ acq_activations = 0
    /\ magnitude = <<>>
    /\ peaks = <<>>
    /\ higher_peaks = {}
    /\ found_peak = FALSE

\* d_test_statistics is not set by the constructor.  doppler_step is 2 Hz, so
\* that doppler_max = 0, 1 give grids of one and two bins; the grid itself is
\* explored over both parameters by GridInit
AcqInit ==
    /\ \E sampled_ms \in 1 .. MaxSampledMs, max_dwells \in 0 .. MaxDwells,
          doppler_max \in 0 .. MaxDopplerMax, doppler_step \in {2},
          bit_transition_flag \in BOOLEAN, peak \in 1 .. MaxPeak,
          threshold \in 0 .. MaxThreshold :
          /\ LET cells == CountDopplerBins(-doppler_max, doppler_max, doppler_step)
                              * sampled_ms * samples_per_ms
             IN \/ cells <= SmallCells
                \/ cells <= MaxCells /\ max_dwells = 1 /\ ~bit_transition_flag
                \/ cells <= MaxCells /\ max_dwells = 2 /\ ~bit_transition_flag
                      /\ peak > 1
          /\ AcqConstructed(sampled_ms, max_dwells, doppler_max, doppler_step,
                            bit_transition_flag, peak, threshold)
    /\ d_test_statistics \in {FZero, FDiv(MaxMag, 1)}
    /\ d_gnss_synchro = [Acq_delay_samples |-> 0, Acq_doppler_hz |-> 0,
                         Acq_samplestamp_samples |-> 0,
                         Tracking_timestamp_secs |-> 0,
                         Flag_valid_tracking |-> FALSE]

Acq_general_work ==
    \/ \E nitems \in 1 .. MaxItems : GeneralWorkIdle(nitems)
    \/ d_state = 1 /\ \E block \in InputBlocks : GeneralWorkDwell(block)
    \/ GeneralWorkDwellNaN
    \/ \E nitems \in 1 .. MaxItems : GeneralWorkPositive(nitems)
    \/ \E nitems \in 1 .. MaxItems : GeneralWorkNegative(nitems)

\* ======================================================= tracking block
\* round(): nearest integer to a / b (b > 0), halves away from zero
RoundDiv(a, b) ==
    IF a >= 0 THEN (2 * a + b) \div (2 * b)
    ELSE -(((-2) * a + b) \div (2 * b))

\* variant: the fraction is dropped instead of rounded
Round_Truncating(q) == q \div Sub

\* round() of a sample quantity held in 1/Sub samples
Round(q) == RoundDiv(q, Sub)

\* fmod(a, b) (b > 0): remainder with the sign of a
FMod(a, b) == IF a >= 0 THEN a % b ELSE -((-a) % b)

\* T_prn_samples = (1 / code_freq_chips) * CODE_LENGTH_CHIPS * fs_in with
\* code_freq_chips = CODE_RATE * (1 + doppler / FREQ), in 1/Sub samples
PrnSamples(doppler) ==
    RoundDiv(GPS_L1_CA_CODE_LENGTH_CHIPS * fs_in * GPS_L1_FREQ_HZ * Sub,
             GPS_L1_CA_CODE_RATE_HZ * (GPS_L1_FREQ_HZ + doppler))

\* T_prn_true_samples, in 1/Sub samples
PrnTrueSamples ==
    (GPS_L1_CA_CODE_LENGTH_CHIPS * fs_in * Sub) \div GPS_L1_CA_CODE_RATE_HZ

\* the loop filters start_tracking initializes
LoopFilters == {"carrier", "code", "code_m", "amplitude", "amplitude_m"}

\* variant: the secondary filters run in every steady-state call
FilterUpdates_SecondaryAlways(t) == [f \in LoopFilters |-> 1]

\* how often a general_work call runs each loop filter: the steady-state
\* path runs the carrier, the primary code and the primary amplitude filter
\* once, and the secondary code and amplitude filters once unless CADLL_init
FilterUpdates(t) ==
    [f \in LoopFilters |->
        IF f \in {"carrier", "code", "amplitude"} THEN 1
        ELSE IF t.CADLL_init THEN 0 ELSE 1]

\* a call that returns before, or branches around, the loop filters
NoFilterUpdates == [f \in LoopFilters |-> 0]

\* the history of the lock detector: steady-state calls, lock evaluations,
\* failing evaluations in a row and losses of lock since start_tracking
NoHistory == [calls |-> 0, evals |-> 0, run |-> 0, losses |-> 0]

\* the prompt correlator outputs are numbered from 1 in the order the
\* steady-state calls compute them; a slot of d_Prompt_buffer holds the
\* number of the output stored in it, and new gr_complex[] leaves a slot
\* without any of them
NoPrompt == 0

\* the members after the constructor; prompts_computed counts the
\* steady-state prompt outputs computed so far and prompts_at_start is the
\* count at the most recent start_tracking
ConstructedMembers ==
          [d_enable_tracking |-> FALSE,
              d_pull_in |-> FALSE,
              CADLL_init |-> TRUE,
              d_sample_counter |-> 0,
              d_sample_counter_m |-> 0,
              d_acq_sample_stamp |-> 0,
              d_acq_code_phase_samples |-> 0,
              d_acq_carrier_doppler_hz |-> 0,
              d_carrier_doppler_hz |-> 0,
              d_code_freq_doppler |-> 0,
              d_rem_code_phase_samples |-> 0,
              d_rem_code_phase_samples_m |-> 0,
              d_current_prn_length_samples |-> vector_length,
              d_current_prn_length_samples_m |-> vector_length,
              d_acc_code_phase_secs |-> 0,
              d_acc_code_phase_secs_m |-> 0,
              d_cn0_estimation_counter |-> 0,
              d_carrier_lock_fail_counter |-> 0,
              d_Prompt_buffer |-> [k \in 0 .. (CN0_ESTIMATION_SAMPLES - 1) |-> NoPrompt],
              prompts_computed |-> 0,
              prompts_at_start |-> 0,
              correlation |-> "none",
              filter_updates |-> NoFilterUpdates,
              d_early_late_spc_chips |-> 1,
              initialized |-> {},
              d_dump |-> FALSE,
              dump_failed |-> FALSE,
              dump_tried |-> FALSE]

\* the constructor assigns neither code-phase accumulator: each holds
\* whatever the memory held, here zero or another value
IndeterminateAccumulator == {0, 1}

ConstructedStates ==
    {[ConstructedMembers EXCEPT !.d_acc_code_phase_secs = a,
                                !.d_acc_code_phase_secs_m = b] :
        a \in IndeterminateAccumulator, b \in IndeterminateAccumulator}

\* state after the constructor, in a run that consumes up to `limit` samples
TrkConstructedWithin(limit) ==
    /\ trk \in ConstructedStates
    /\ d_queue = <<>>
    /\ trk_call = "none"
    /\ trk_consumed = 0
    /\ trk_out = [kind |-> "none"]
    /\ trk_limit = limit
    /\ lock_hist = NoHistory

\* state after the constructor
TrkConstructed == TrkConstructedWithin(MaxTrkConsumed)

\* T_prn_mod_samples for the acquired Doppler, in 1/(FREQ + doppler) samples
PrnModExact == (GPS_L1_CA_CODE_LENGTH_CHIPS * fs_in * GPS_L1_FREQ_HZ) \div GPS_L1_CA_CODE_RATE_HZ

\* corrected_acq_phase_samples of start_tracking, exactly, in
\* 1/(FREQ + doppler) samples: T_prn_diff_seconds * N_prn_diff * fs_in is
\* acq_trk_diff_samples * doppler / (FREQ + doppler)
CorrectedAcqPhaseExact(acq_delay, acq_doppler, acq_trk_diff_samples) ==
    LET den == GPS_L1_FREQ_HZ + acq_doppler
        true_n == ((GPS_L1_CA_CODE_LENGTH_CHIPS * fs_in) \div GPS_L1_CA_CODE_RATE_HZ) * den
        corrected == FMod(acq_delay * den + acq_trk_diff_samples * acq_doppler, true_n)
    IN IF corrected < 0 THEN PrnModExact + corrected ELSE corrected

\* corrected_acq_phase_samples of start_tracking, in 1/Sub samples
CorrectedAcqPhase(acq_delay, acq_doppler, acq_trk_diff_samples) ==
    RoundDiv(Sub * CorrectedAcqPhaseExact(acq_delay, acq_doppler, acq_trk_diff_samples),
             GPS_L1_FREQ_HZ + acq_doppler)

\* the members after start_tracking, given the shared record
StartTrackingState(t, synchro) ==
    [t EXCEPT
        !.d_acq_sample_stamp = synchro.Acq_samplestamp_samples,
        !.d_acq_carrier_doppler_hz = synchro.Acq_doppler_hz,
        !.d_code_freq_doppler = synchro.Acq_doppler_hz,
        !.d_current_prn_length_samples = Round(PrnSamples(synchro.Acq_doppler_hz)),
        !.d_current_prn_length_samples_m = Round(PrnSamples(synchro.Acq_doppler_hz)),
        !.d_acq_code_phase_samples =
            CorrectedAcqPhase(synchro.Acq_delay_samples, synchro.Acq_doppler_hz,
                              t.d_sample_counter - synchro.Acq_samplestamp_samples),
        !.d_carrier_doppler_hz = synchro.Acq_doppler_hz,
        !.initialized = LoopFilters,
        !.d_carrier_lock_fail_counter = 0,
        !.prompts_at_start = t.prompts_computed,
        !.d_rem_code_phase_samples = 0,
        !.d_rem_code_phase_samples_m = 0,
        !.d_acc_code_phase_secs = 0,
        !.d_pull_in = TRUE,
        !.d_enable_tracking = TRUE]

start_tracking ==
    /\ ~trk.d_enable_tracking
    /\ trk' = StartTrackingState(trk, d_gnss_synchro)
    /\ lock_hist' = NoHistory
    /\ UNCHANGED <<d_queue, trk_call, trk_consumed, trk_out, trk_limit,
                   acqVars>>

\* variant: the message of stop_tracking goes to the channel-level queue
\* as well
stop_tracking_BothQueues ==
    /\ Len(d_queue) < MaxQueue
    /\ d_queue' = Append(d_queue, 2)
    /\ d_channel_internal_queue' = Append(d_channel_internal_queue, 2)
    /\ trk' = [trk EXCEPT !.d_enable_tracking = FALSE]
    /\ UNCHANGED <<acqCfg, acqGrid, acqDwell, d_state, d_active, d_well_count,
                   d_sample_counter, d_mag, d_mag_2nd_highest, d_input_power,
                   d_test_statistics, d_gnss_synchro, acq_call, acq_consumed,
                   acq_activations, trk_call, trk_consumed, trk_out,
                   trk_limit, lock_hist>>

\* stop_tracking posts message 2 and clears d_enable_tracking, whether or
\* not the block is tracking
stop_tracking ==
    /\ Len(d_queue) < MaxQueue
    /\ d_queue' = Append(d_queue, 2)
    /\ trk' = [trk EXCEPT !.d_enable_tracking = FALSE]
    /\ UNCHANGED <<trk_call, trk_consumed, trk_out, trk_limit, lock_hist,
                   acqVars>>

\* variant: the pull-in skips to the next multiple of the PRN length and
\* leaves the acquired code phase out
SamplesOffset_NoCodePhase(t) ==
    LET acq_to_trk_delay_samples == t.d_sample_counter - t.d_acq_sample_stamp
    IN t.d_current_prn_length_samples
           - FMod(acq_to_trk_delay_samples, t.d_current_prn_length_samples)

\* the dump block that ends a steady-state or tracking-disabled call: with
\* d_dump set the call writes to d_dump_file; a failed write throws, is
\* caught and logged, and leaves the stream failed, so that every later
\* write fails too.  dump_tried tells whether the last call tried to write
DumpOutcomes(t) ==
    IF ~t.d_dump THEN {FALSE} ELSE IF t.dump_failed THEN {TRUE} ELSE BOOLEAN

AfterDump(t, write_fails) ==
    [t EXCEPT !.dump_tried = t.d_dump,
              !.dump_failed = t.dump_failed \/ write_fails]

\* a call that returns before the dump block
NoDump(t) == [t EXCEPT !.dump_tried = FALSE]

\* samples_offset of the pull-in call
SamplesOffset(t) ==
    LET acq_to_trk_delay_samples == t.d_sample_counter - t.d_acq_sample_stamp
        acq_trk_shif_correction_samples ==
            t.d_current_prn_length_samples
                - FMod(acq_to_trk_delay_samples, t.d_current_prn_length_samples)
    IN Round(t.d_acq_code_phase_samples + Sub * acq_trk_shif_correction_samples)

\* the number passed to consume_each by a call that adds `counted` samples
\* to d_sample_counter
ConsumeEach(counted) == counted

TrkPullIn ==
    /\ trk.d_enable_tracking
    /\ trk.d_pull_in
    /\ trk_consumed + SamplesOffset(trk) <= trk_limit
    /\ trk' = NoDump([trk EXCEPT
           !.d_sample_counter = trk.d_sample_counter + SamplesOffset(trk),
           !.d_sample_counter_m = trk.d_sample_counter + SamplesOffset(trk),
           !.filter_updates = NoFilterUpdates,
           !.d_pull_in = FALSE])
    /\ trk_consumed' = trk_consumed + ConsumeEach(SamplesOffset(trk))
    /\ trk_call' = "pull_in"
    /\ UNCHANGED <<d_queue, trk_out, trk_limit, lock_hist, acqVars>>

\* the record a call emits: current_synchro_data starts as a copy of the
\* shared record and the call assigns some of its fields; `written` names
\* the assigned fields, the time stamp is held in 1/Sub samples
OutputRecord(kind, synchro, written, timestamp, valid) ==
    [kind |-> kind,
     written |-> written,
     Tracking_timestamp |->
         IF "Tracking_timestamp_secs" \in written THEN timestamp
         ELSE synchro.Tracking_timestamp_secs * Sub,
     Flag_valid_tracking |->
         IF "Flag_valid_tracking" \in written THEN valid
         ELSE synchro.Flag_valid_tracking]

\* the fields the NaN path assigns
NaNFields == {"Prompt_I", "Prompt_Q", "Tracking_timestamp_secs",
              "Carrier_phase_rads", "Code_phase_secs", "CN0_dB_hz",
              "Flag_valid_tracking"}

\* the fields the steady-state output assigns
SteadyFields == {"Prompt_I", "Prompt_Q", "Tracking_timestamp_secs",
                 "Code_phase_secs", "Carrier_phase_rads",
                 "Carrier_Doppler_hz", "CN0_dB_hz"}

\* the correlator call of a general_work call that reaches the correlation:
\* Carrier_wipeoff_and_EPL_volk while CADLL_init, else
\* Carrier_wipeoff_and_EPL_CADLL_volk (six correlators)
Correlation(t) == IF t.CADLL_init THEN "EPL" ELSE "CADLL"

\* Prompt is NaN: all available samples are consumed and an invalid record
\* is written
TrkNaN(samples_available) ==
    /\ trk.d_enable_tracking
    /\ ~trk.d_pull_in
    /\ trk_consumed + samples_available <= trk_limit
    /\ trk' = NoDump([trk EXCEPT
           !.d_sample_counter = trk.d_sample_counter + samples_available,
           !.filter_updates = NoFilterUpdates,
           !.correlation = Correlation(trk)])
    /\ trk_consumed' = trk_consumed + ConsumeEach(samples_available)
    /\ trk_out' = OutputRecord("nan", d_gnss_synchro, NaNFields,
                               (trk.d_sample_counter + samples_available) * Sub,
                               FALSE)
    /\ trk_call' = "nan"
    /\ UNCHANGED <<d_queue, trk_limit, lock_hist, acqVars>>

\* early_late_spc_samples of update_local_code and update_local_code_m:
\* round(d_early_late_spc_chips / (d_code_freq_chips / d_fs_in)), for an
\* early-late spacing of half a chip
EarlyLateSpcSamples(doppler) ==
    RoundDiv(fs_in * GPS_L1_FREQ_HZ,
             2 * GPS_L1_CA_CODE_RATE_HZ * (GPS_L1_FREQ_HZ + doppler))

\* epl_loop_length_samples: the samples update_local_code writes to
\* d_early_code for a PRN length
EplLoopLength(length, doppler) == length + 2 * EarlyLateSpcSamples(doppler)

\* variant: the promotion does not wait for the time stamp
Promote_AtAnyTime(t, timestamp) == t.CADLL_init

\* the one-shot promotion to CADLL mode: CADLL_init and
\* Tracking_timestamp_secs > 1, the time stamp held in 1/Sub samples
Promote(t, timestamp) == t.CADLL_init /\ timestamp > fs_in * Sub

\* d_ca_code after start_tracking, for the chips `code` the generator writes
\* to indices 1 .. CODE_LENGTH: a guard chip on each side
CaCodeAfterStart(code) ==
    [j \in 0 .. (GPS_L1_CA_CODE_LENGTH_CHIPS + 1) |->
        IF j = 0 THEN code[GPS_L1_CA_CODE_LENGTH_CHIPS]
        ELSE IF j = GPS_L1_CA_CODE_LENGTH_CHIPS + 1 THEN code[1]
        ELSE code[j]]

\* chips are held as multiples of 1 / ChipDen
ChipDen == 2 * GPS_L1_FREQ_HZ * fs_in * Sub

\* tcode_chips - d_early_late_spc_chips at sample i of the replica loop:
\* tcode_chips starts at -rem * code_phase_step_chips and grows by
\* code_phase_step_chips = d_code_freq_chips / d_fs_in per sample; rem is in
\* 1/Sub samples, the spacing h in half chips
TcodeMinusSpacing(rem, doppler, h, i) ==
    2 * (Sub * i - rem) * GPS_L1_CA_CODE_RATE_HZ * (GPS_L1_FREQ_HZ + doppler)
        - h * GPS_L1_FREQ_HZ * fs_in * Sub

\* associated_chip_index of update_local_code
AssociatedChipIndex(rem, doppler, h, i) ==
    1 + RoundDiv(FMod(TcodeMinusSpacing(rem, doppler, h, i),
                      GPS_L1_CA_CODE_LENGTH_CHIPS * ChipDen), ChipDen)

\* associated_chip_index of update_local_code_m, which adds the code length
\* to a negative index
AssociatedChipIndex_m(rem, doppler, h, i) ==
    LET a == AssociatedChipIndex(rem, doppler, h, i)
    IN IF a < 0 THEN GPS_L1_CA_CODE_LENGTH_CHIPS + a ELSE a

\* early_late_spc_samples for a spacing of h half chips
EarlyLateSamples(h, doppler) ==
    RoundDiv(h * fs_in * GPS_L1_FREQ_HZ,
             2 * GPS_L1_CA_CODE_RATE_HZ * (GPS_L1_FREQ_HZ + doppler))

\* the chip indices update_local_code reads in a call made in state t
LocalCodeIndices(t) ==
    {AssociatedChipIndex(t.d_rem_code_phase_samples, t.d_code_freq_doppler, t.d_early_late_spc_chips, i) :
        i \in 0 .. (t.d_current_prn_length_samples + 2 * EarlyLateSamples(t.d_early_late_spc_chips, t.d_code_freq_doppler) - 1)}

\* the chip indices update_local_code_m reads in a call made in state t
LocalCodeIndices_m(t) ==
    {AssociatedChipIndex_m(t.d_rem_code_phase_samples_m, t.d_code_freq_doppler, t.d_early_late_spc_chips, i) :
        i \in 0 .. (t.d_current_prn_length_samples_m + 2 * EarlyLateSamples(t.d_early_late_spc_chips, t.d_code_freq_doppler) - 1)}

\* variant: a passing evaluation decrements the counter without the test
\* for zero
LockFailCounter_NoFloor(fail_counter, lock_ok) ==
    IF ~lock_ok THEN fail_counter + 1 ELSE fail_counter - 1

\* d_carrier_lock_fail_counter after the test of a lock evaluation, before
\* the comparison with MAXIMUM_LOCK_FAIL_COUNTER
LockFailCounter(fail_counter, lock_ok) ==
    IF ~lock_ok THEN fail_counter + 1
    ELSE IF fail_counter > 0 THEN fail_counter - 1
    ELSE fail_counter

\* d_Prompt_buffer after the lock detector section: the prompt of the call
\* is stored while d_cn0_estimation_counter < CN0_ESTIMATION_SAMPLES
PromptBufferAfter(t) ==
    IF t.d_cn0_estimation_counter < CN0_ESTIMATION_SAMPLES
    THEN [t.d_Prompt_buffer EXCEPT
             ![t.d_cn0_estimation_counter] = t.prompts_computed + 1]
    ELSE t.d_Prompt_buffer

\* one PRN period of steady-state tracking; the inputs are the outputs of
\* the PLL filter (Hz), of the two DLL filters (1/Sub samples) and of the
\* lock test of this call
SteadyResult(t, carr_error_filt_hz, code_error, code_error_m, lock_ok) ==
    LET doppler == t.d_acq_carrier_doppler_hz + carr_error_filt_hz
        K_blk_samples == PrnSamples(doppler) + t.d_rem_code_phase_samples
                             + code_error
        K_blk_samples_m ==
            IF t.CADLL_init THEN K_blk_samples
            ELSE PrnSamples(doppler) + t.d_rem_code_phase_samples_m
                     + code_error_m
        length == Round(K_blk_samples)
        length_m == Round(K_blk_samples_m)
        evaluate == ~(t.d_cn0_estimation_counter < CN0_ESTIMATION_SAMPLES)
        fails == IF ~evaluate THEN t.d_carrier_lock_fail_counter
                 ELSE LockFailCounter(t.d_carrier_lock_fail_counter, lock_ok)
        loss == evaluate /\ fails > MAXIMUM_LOCK_FAIL_COUNTER
        timestamp == t.d_sample_counter * Sub + t.d_rem_code_phase_samples
        rem == K_blk_samples - length * Sub
        rem_m == K_blk_samples_m - length * Sub
        promote == Promote(t, timestamp)
    IN [t |-> [t EXCEPT
                 !.d_carrier_doppler_hz = doppler,
                 !.d_code_freq_doppler = doppler,
                 !.d_current_prn_length_samples = length,
                 !.d_current_prn_length_samples_m = length_m,
                 !.d_cn0_estimation_counter =
                     IF evaluate THEN 0 ELSE t.d_cn0_estimation_counter + 1,
                 !.d_Prompt_buffer = PromptBufferAfter(t),
                 !.prompts_computed = t.prompts_computed + 1,
                 !.d_carrier_lock_fail_counter = IF loss THEN 0 ELSE fails,
                 !.d_enable_tracking = ~loss,
                 !.d_rem_code_phase_samples = rem,
                 !.d_rem_code_phase_samples_m =
                     IF promote THEN rem - 27 * Sub ELSE rem_m,
                 !.d_acc_code_phase_secs = t.d_acc_code_phase_secs + code_error,
                 !.d_acc_code_phase_secs_m =
                     IF promote THEN t.d_acc_code_phase_secs + code_error
                     ELSE IF t.CADLL_init THEN t.d_acc_code_phase_secs_m
                     ELSE t.d_acc_code_phase_secs_m + code_error_m,
                 !.CADLL_init = IF promote THEN FALSE ELSE t.CADLL_init,
                 !.correlation = Correlation(t),
                 !.filter_updates = FilterUpdates(t),
                 !.d_sample_counter = t.d_sample_counter + length,
                 !.d_sample_counter_m = t.d_sample_counter_m + length_m],
        loss |-> loss,
        evaluate |-> evaluate,
        timestamp |-> timestamp,
        consumed |-> ConsumeEach(length)]

\* the history of the lock detector after a steady-state call
HistoryAfter(h, evaluate, lock_ok, loss) ==
    [calls |-> h.calls + 1,
     evals |-> IF evaluate THEN h.evals + 1 ELSE h.evals,
     run |-> IF ~evaluate THEN h.run ELSE IF lock_ok THEN 0 ELSE h.run + 1,
     losses |-> IF loss THEN h.losses + 1 ELSE h.losses]

\* the filter outputs are drawn at zero and at both extremes of their range
SteadyInputs ==
    {i \in [carr : {-MaxCarrErr, 0, MaxCarrErr},
            code : {-MaxCodeErr, 0, MaxCodeErr},
            code_m : {-MaxCodeErr, 0, MaxCodeErr},
            lock_ok : BOOLEAN] :
        /\ trk.CADLL_init => i.code_m = 0
        /\ trk.d_cn0_estimation_counter < CN0_ESTIMATION_SAMPLES => i.lock_ok}

TrkSteady(i) ==
    /\ trk.d_enable_tracking
    /\ ~trk.d_pull_in
    /\ \E r \in {SteadyResult(trk, i.carr, i.code, i.code_m, i.lock_ok)} :
          /\ trk_consumed + r.consumed <= trk_limit
          /\ r.loss => Len(d_queue) < MaxQueue
          /\ \E write_fails \in DumpOutcomes(trk) :
                 trk' = AfterDump(r.t, write_fails)
          /\ d_queue' = IF r.loss THEN Append(d_queue, 2) ELSE d_queue
          /\ trk_consumed' = trk_consumed + r.consumed
          /\ trk_out' = OutputRecord("steady", d_gnss_synchro, SteadyFields,
                                     r.timestamp, FALSE)
          /\ lock_hist' = HistoryAfter(lock_hist, r.evaluate, i.lock_ok, r.loss)
    /\ trk_call' = "steady"
    /\ UNCHANGED <<trk_limit, acqVars>>

\* variant: a call made while tracking is disabled posts message 2 again
TrkDisabled_Posting ==
    /\ ~trk.d_enable_tracking
    /\ trk_consumed + trk.d_current_prn_length_samples <= trk_limit
    /\ \E write_fails \in DumpOutcomes(trk) :
          trk' = AfterDump([trk EXCEPT
                     !.d_sample_counter =
                         trk.d_sample_counter + trk.d_current_prn_length_samples,
                     !.d_sample_counter_m =
                         trk.d_sample_counter_m + trk.d_current_prn_length_samples_m,
                     !.filter_updates = NoFilterUpdates],
                     write_fails)
    /\ trk_consumed' =
           trk_consumed + ConsumeEach(trk.d_current_prn_length_samples)
    /\ d_queue' = IF Len(d_queue) < MaxQueue THEN Append(d_queue, 2)
                  ELSE d_queue
    /\ trk_out' = OutputRecord("disabled", d_gnss_synchro, {}, 0, FALSE)
    /\ trk_call' = "disabled"
    /\ UNCHANGED <<trk_limit, lock_hist, acqVars>>

\* tracking disabled: the shared record is copied to the output
TrkDisabled ==
    /\ ~trk.d_enable_tracking
    /\ trk_consumed + trk.d_current_prn_length_samples <= trk_limit
    /\ \E write_fails \in DumpOutcomes(trk) :
          trk' = AfterDump([trk EXCEPT
                     !.d_sample_counter =
                         trk.d_sample_counter + trk.d_current_prn_length_samples,
                     !.d_sample_counter_m =
                         trk.d_sample_counter_m + trk.d_current_prn_length_samples_m,
                     !.filter_updates = NoFilterUpdates],
                     write_fails)
    /\ trk_consumed' =
           trk_consumed + ConsumeEach(trk.d_current_prn_length_samples)
    /\ trk_out' = OutputRecord("disabled", d_gnss_synchro, {}, 0, FALSE)
    /\ trk_call' = "disabled"
    /\ UNCHANGED <<d_queue, trk_limit, lock_hist, acqVars>>

Trk_general_work ==
    \/ TrkPullIn
    \/ \E samples_available \in {2 * vector_length} : TrkNaN(samples_available)
    \/ (trk.d_enable_tracking /\ ~trk.d_pull_in)
           /\ \E i \in SteadyInputs : TrkSteady(i)
    \/ TrkDisabled

\* ------------------------------------------------------- specifications
\* the acquisition block on its own
Init == AcqInit /\ TrkConstructed

Next ==
    \/ init /\ UNCHANGED trkVars
    \/ set_active /\ UNCHANGED trkVars
    \/ Acq_general_work /\ UNCHANGED trkVars

Spec == Init /\ [][Next]_vars

\* the Doppler grid of init() over a wide range of doppler_max, doppler_step
GridInit ==
    /\ \E doppler_max \in 0 .. GridMaxDoppler, doppler_step \in 1 .. GridMaxStep :
          AcqConstructed(1, 1, doppler_max, doppler_step, FALSE, 1, 1)
    /\ d_test_statistics = FZero
    /\ d_gnss_synchro = [Acq_delay_samples |-> 0, Acq_doppler_hz |-> 0,
                         Acq_samplestamp_samples |-> 0,
                         Tracking_timestamp_secs |-> 0,
                         Flag_valid_tracking |-> FALSE]
    /\ TrkConstructed

GridNext ==
    \/ init /\ UNCHANGED trkVars
    \/ set_active /\ UNCHANGED trkVars
    \/ (\E nitems \in 1 .. MaxItems : GeneralWorkIdle(nitems)) /\ UNCHANGED trkVars

SpecGrid == GridInit /\ [][GridNext]_vars

\* the acquisition block in bit-transition mode on a grid of two Doppler
\* bins (-1 Hz, +1 Hz) and two code phases, two dwells per acquisition
BitInit ==
    /\ AcqConstructed(1, 2, 1, 2, TRUE, 1, 1)
    /\ d_test_statistics \in {FZero, FDiv(MaxMag, 1)}
    /\ d_gnss_synchro = [Acq_delay_samples |-> 0, Acq_doppler_hz |-> 0,
                         Acq_samplestamp_samples |-> 0,
                         Tracking_timestamp_secs |-> 0,
                         Flag_valid_tracking |-> FALSE]
    /\ TrkConstructed

\* the input blocks of these runs
BitBlocks ==
    {b \in InputBlocks :
        \A k \in DOMAIN b.grid : \A i \in DOMAIN b.grid[k] :
            b.grid[k][i] <= MaxBitMag * MagnitudeScale}

BitNext ==
    \/ init /\ UNCHANGED trkVars
    \/ set_active /\ UNCHANGED trkVars
    \/ (\E nitems \in 1 .. MaxItems : GeneralWorkIdle(nitems)) /\ UNCHANGED trkVars
    \/ d_state = 1 /\ (\E block \in BitBlocks : GeneralWorkDwell(block)) /\ UNCHANGED trkVars
    \/ GeneralWorkDwellNaN /\ UNCHANGED trkVars
    \/ (\E nitems \in 1 .. MaxItems : GeneralWorkPositive(nitems)) /\ UNCHANGED trkVars
    \/ (\E nitems \in 1 .. MaxItems : GeneralWorkNegative(nitems)) /\ UNCHANGED trkVars

SpecBit == BitInit /\ [][BitNext]_vars

\* the tracking block, started from a record the acquisition may have left
TrkInit ==
    /\ AcqConstructed(1, 1, 0, 1, FALSE, 1, 1)
    /\ d_test_statistics = FZero
    /\ d_gnss_synchro \in [Acq_delay_samples : {0, 5, vector_length - 1},
                           Acq_doppler_hz : {-MaxAcqDoppler, 0, MaxAcqDoppler},
                           Acq_samplestamp_samples : {0, vector_length},
                           Tracking_timestamp_secs : {0},
                           Flag_valid_tracking : BOOLEAN]
    /\ TrkConstructed

TrkNext ==
    \/ start_tracking
    \/ stop_tracking
    \/ Trk_general_work

SpecTrk == TrkInit /\ [][TrkNext]_vars

\* the lock detector over the steady-state calls a loss of lock takes: the
\* tracking is started on the record the acquisition's init() leaves, the PLL
\* and DLL filter outputs stay at zero and every lock evaluation may pass or
\* fail
ZeroSynchro ==
    [Acq_delay_samples |-> 0, Acq_doppler_hz |-> 0,
     Acq_samplestamp_samples |-> 0, Tracking_timestamp_secs |-> 0,
     Flag_valid_tracking |-> FALSE]

LockInit ==
    /\ AcqConstructed(1, 1, 0, 1, FALSE, 1, 1)
    /\ d_test_statistics = FZero
    /\ d_gnss_synchro = ZeroSynchro
    /\ \E c \in ConstructedStates : trk = StartTrackingState(c, ZeroSynchro)
    /\ d_queue = <<>>
    /\ trk_call = "none"
    /\ trk_consumed = 0
    /\ trk_out = [kind |-> "none"]
    /\ trk_limit = MaxLockConsumed
    /\ lock_hist = NoHistory

LockInputs ==
    {i \in SteadyInputs : i.carr = 0 /\ i.code = 0 /\ i.code_m = 0}

LockNext ==
    \/ start_tracking
    \/ TrkPullIn
    \/ (trk.d_enable_tracking /\ ~trk.d_pull_in)
           /\ \E i \in LockInputs : TrkSteady(i)
    \/ TrkDisabled

SpecLock == LockInit /\ [][LockNext]_vars

\* the prompt buffer of the lock detector over a tracking session that is
\* stopped and started again: the run is long enough for one lock evaluation
\* after the restart
MaxPromptConsumed == 800   \* samples consumed in a run of SpecPrompt

PromptInit ==
    /\ AcqConstructed(1, 1, 0, 1, FALSE, 1, 1)
    /\ d_test_statistics = FZero
    /\ d_gnss_synchro = ZeroSynchro
    /\ \E c \in ConstructedStates : trk = StartTrackingState(c, ZeroSynchro)
    /\ d_queue = <<>>
    /\ trk_call = "none"
    /\ trk_consumed = 0
    /\ trk_out = [kind |-> "none"]
    /\ trk_limit = MaxPromptConsumed
    /\ lock_hist = NoHistory

PromptNext ==
    \/ start_tracking
    \/ stop_tracking
    \/ TrkPullIn
    \/ (trk.d_enable_tracking /\ ~trk.d_pull_in)
           /\ \E i \in LockInputs : TrkSteady(i)
    \/ TrkDisabled

SpecPrompt == PromptInit /\ [][PromptNext]_vars

\* the buffer lengths of the tracking block when a DLL filter output is
\* large: the primary or the secondary filter outputs zero or MaxDllOut
LenInputs ==
    {i \in [carr : {0}, code : {0, MaxDllOut}, code_m : {0, MaxDllOut},
            lock_ok : BOOLEAN] :
        /\ trk.CADLL_init => i.code_m = 0
        /\ trk.d_cn0_estimation_counter < CN0_ESTIMATION_SAMPLES => i.lock_ok}

LenNext ==
    \/ start_tracking
    \/ TrkPullIn
    \/ (trk.d_enable_tracking /\ ~trk.d_pull_in)
           /\ \E i \in LenInputs : TrkSteady(i)
    \/ TrkDisabled

SpecLen == TrkInit /\ [][LenNext]_vars

\* the tracking block constructed with dump = true, its dump file opened by
\* set_channel
DumpInit ==
    /\ AcqConstructed(1, 1, 0, 1, FALSE, 1, 1)
    /\ d_test_statistics = FZero
    /\ d_gnss_synchro = ZeroSynchro
    /\ \E c \in ConstructedStates : trk = [c EXCEPT !.d_dump = TRUE]
    /\ d_queue = <<>>
    /\ trk_call = "none"
    /\ trk_consumed = 0
    /\ trk_out = [kind |-> "none"]
    /\ trk_limit = MaxTrkConsumed
    /\ lock_hist = NoHistory

SpecDump == DumpInit /\ [][TrkNext]_vars

\* the tracking block started on one of a few acquisition results, for the
\* properties of the code NCOs and of the loop updates
NcoInit ==
    /\ AcqConstructed(1, 1, 0, 1, FALSE, 1, 1)
    /\ d_test_statistics = FZero
    /\ d_gnss_synchro \in [Acq_delay_samples : {0, 5},
                           Acq_doppler_hz : {0, MaxAcqDoppler},
                           Acq_samplestamp_samples : {0},
                           Tracking_timestamp_secs : {0},
                           Flag_valid_tracking : {FALSE}]
    /\ TrkConstructed

SpecNco == NcoInit /\ [][TrkNext]_vars

\* the tracking block constructed with one of several early-late spacings
\* (d_early_late_spc_chips, held in half chips), for the local code replicas
CodeInit ==
    /\ AcqConstructed(1, 1, 0, 1, FALSE, 1, 1)
    /\ d_test_statistics = FZero
    /\ d_gnss_synchro \in [Acq_delay_samples : {0},
                           Acq_doppler_hz : {0},
                           Acq_samplestamp_samples : {0},
                           Tracking_timestamp_secs : {0},
                           Flag_valid_tracking : {FALSE}]
    /\ \E c \in ConstructedStates, h \in 1 .. MaxSpacing :
          trk = [c EXCEPT !.d_early_late_spc_chips = h]
    /\ d_queue = <<>>
    /\ trk_call = "none"
    /\ trk_consumed = 0
    /\ trk_out = [kind |-> "none"]
    /\ trk_limit = MaxTrkConsumed
    /\ lock_hist = NoHistory

SpecCode == CodeInit /\ [][TrkNext]_vars

\* one channel: the acquisition and the tracking block read the same sample
\* stream on their own threads; the channel controller activates the
\* acquisition, starts the tracking on ACQ_SUCCESS (1) and re-activates the
\* acquisition on ACQ_FAIL (2)
ChannelInit ==
    /\ AcqConstructed(1, 1, 0, 1, FALSE, 1, 1)
    /\ d_test_statistics = FZero
    /\ d_gnss_synchro = [Acq_delay_samples |-> 0, Acq_doppler_hz |-> 0,
                         Acq_samplestamp_samples |-> 0,
                         Tracking_timestamp_secs |-> 0,
                         Flag_valid_tracking |-> FALSE]
    /\ TrkConstructed

ChannelOnAcqSuccess ==
    /\ d_channel_internal_queue # <<>>
    /\ Head(d_channel_internal_queue) = 1
    /\ ~trk.d_enable_tracking
    /\ d_channel_internal_queue' = Tail(d_channel_internal_queue)
    /\ trk' = StartTrackingState(trk, d_gnss_synchro)
    /\ lock_hist' = NoHistory
    /\ UNCHANGED <<acqCfg, acqGrid, acqDwell, d_state, d_active, d_well_count,
                   d_sample_counter, d_mag, d_mag_2nd_highest, d_input_power,
                   d_test_statistics, d_gnss_synchro, acq_call, acq_consumed,
                   acq_activations, d_queue, trk_call, trk_consumed, trk_out,
                   trk_limit>>

ChannelOnAcqFail ==
    /\ d_channel_internal_queue # <<>>
    /\ Head(d_channel_internal_queue) = 2
    /\ d_channel_internal_queue' = Tail(d_channel_internal_queue)
    /\ d_active' = TRUE
    /\ UNCHANGED <<acqCfg, acqGrid, acqDwell, d_state, d_well_count,
                   d_sample_counter, d_mag, d_mag_2nd_highest, d_input_power,
                   d_test_statistics, d_gnss_synchro, acq_call, acq_consumed,
                   acq_activations, trkVars>>

ChannelNext ==
    \/ init /\ UNCHANGED trkVars
    \/ (d_channel_internal_queue = <<>> /\ ~trk.d_enable_tracking /\ set_active)
           /\ UNCHANGED trkVars
    \/ Acq_general_work /\ UNCHANGED trkVars
    \/ ChannelOnAcqSuccess
    \/ ChannelOnAcqFail
    \/ stop_tracking
    \/ Trk_general_work

SpecChannel == ChannelInit /\ [][ChannelNext]_vars

\* ===================================================== claims, acquisition
\* a step that is a general_work call of the acquisition block
AcqCall == acq_consumed' > acq_consumed

\* a step that is a dwell (general_work in state 1)
AcqDwellStep == AcqCall /\ d_state = 1

\* the transitions of the state machine: IDLE(0), DWELL(1), POSITIVE(2),
\* NEGATIVE(3)
AcqTransitions == {<<0, 0>>, <<0, 1>>, <<1, 1>>, <<1, 2>>, <<1, 3>>,
                   <<2, 0>>, <<3, 0>>}

\* C1: the state is always one of 0..3; a general_work call makes only the
\* transitions IDLE->DWELL (only when active), DWELL->DWELL, DWELL->POSITIVE,
\* DWELL->NEGATIVE, POSITIVE->IDLE, NEGATIVE->IDLE, and with active false
\* the block stays in IDLE; nothing else changes the state.
C1_StateMachine ==
    [][/\ d_state \in 0 .. 3
       /\ d_state' \in 0 .. 3
       /\ AcqCall => /\ <<d_state, d_state'>> \in AcqTransitions
                     /\ d_state = 2 => d_state' = 0
                     /\ d_state = 3 => d_state' = 0
                     /\ (d_state = 0 /\ d_state' = 1) => d_active
                     /\ (d_state = 0 /\ ~d_active) => d_state' = 0
       /\ ~AcqCall => d_state' = d_state]_vars

C1_Witness ==
    /\ acq_call = "negative"
    /\ d_state = 0
    /\ ~d_active
    /\ d_well_count = 2

\* C2: the call that leaves POSITIVE pushes 1, the call that leaves NEGATIVE
\* pushes 2, and that call clears active and returns to IDLE; no other step
\* pushes anything, so the queue holds one message (1 or 2, never 0) per
\* completed activation.
C2_OneMessagePerActivation ==
    /\ [](/\ \A n \in DOMAIN d_channel_internal_queue :
                d_channel_internal_queue[n] \in {1, 2}
          /\ Len(d_channel_internal_queue) =
                 acq_activations - (IF d_state = 0 THEN 0 ELSE 1))
    /\ [][/\ (AcqCall /\ d_state = 2) =>
                 /\ d_channel_internal_queue' = Append(d_channel_internal_queue, 1)
                 /\ ~d_active'
                 /\ d_state' = 0
          /\ (AcqCall /\ d_state = 3) =>
                 /\ d_channel_internal_queue' = Append(d_channel_internal_queue, 2)
                 /\ ~d_active'
                 /\ d_state' = 0
          /\ ~(AcqCall /\ d_state \in {2, 3}) =>
                 d_channel_internal_queue' = d_channel_internal_queue]_vars

C2_Witness ==
    /\ d_channel_internal_queue = <<1>>
    /\ acq_call = "positive"
    /\ d_state = 0
    /\ ~d_active

\* C3: with bit_transition_flag false and peak <= 1, a dwell counts one more
\* dwell and ends POSITIVE if test_statistics > threshold, else NEGATIVE if
\* well_count = max_dwells, else it stays in DWELL; NEGATIVE is therefore
\* reached with exactly max_dwells dwells done and no test statistic above
\* the threshold.
C3_DecisionNoBitTransition ==
    /\ [][(AcqDwellStep /\ ~d_bit_transition_flag /\ d_peak <= 1) =>
              /\ d_well_count' = d_well_count + 1
              /\ d_state' = IF d_test_statistics'.num >
                                   d_threshold * d_test_statistics'.den THEN 2
                            ELSE IF d_well_count' = d_max_dwells THEN 3
                            ELSE 1]_vars
    /\ []((~d_bit_transition_flag /\ d_peak <= 1 /\ d_state = 3) =>
              /\ d_well_count = d_max_dwells
              /\ d_test_statistics.num <= d_threshold * d_test_statistics.den)

C3_Witness ==
    /\ ~d_bit_transition_flag
    /\ d_peak <= 1
    /\ d_state = 3
    /\ d_max_dwells = 2
    /\ d_well_count = 2
    /\ d_test_statistics.num > 0

\* C4 (as stated): whenever the state is NEGATIVE, well_count = max_dwells,
\* for every combination of bit_transition_flag and peak.
C4_NegativeOnlyAtMaxDwells == d_state = 3 => d_well_count = d_max_dwells

\* C4 (as amended): whenever the state is NEGATIVE, well_count = max_dwells,
\* except in auxiliary-peak mode (peak > 1) with bit_transition_flag false,
\* where a dwell that selects no auxiliary peak is NEGATIVE at any
\* well_count.
C4_NegativeAtMaxDwellsOrNoPeak ==
    d_state = 3 =>
        \/ d_well_count = d_max_dwells
        \/ ~d_bit_transition_flag /\ d_peak > 1 /\ ~found_peak

C4_Witness ==
    /\ d_state = 3
    /\ d_bit_transition_flag
    /\ d_peak > 1
    /\ d_max_dwells = 2
    /\ d_well_count = 2

\* C5: with bit_transition_flag true, for every max_dwells, no decision is
\* taken after the first dwell and after the second the state is POSITIVE
\* only if test_statistics > threshold, else NEGATIVE.
C5_TwoDwellsWithBitTransition ==
    [][(AcqDwellStep /\ d_bit_transition_flag) =>
          IF d_well_count' = 2
          THEN /\ d_state' \in {2, 3}
               /\ d_state' = 2 =>
                      d_test_statistics'.num > d_threshold * d_test_statistics'.den
          ELSE d_state' = 1]_vars

\* C6: well_count never exceeds max_dwells, and once max_dwells dwells are
\* done the acquisition has left DWELL, for every max_dwells (0 included).
C6_LeavesDwellWithinMaxDwells ==
    /\ d_well_count <= d_max_dwells
    /\ (acq_call = "dwell" /\ d_state = 1) => d_well_count < d_max_dwells

\* cells of the last dwell whose energy exceeded threshold_spoofing
AboveThreshold ==
    {c \in (DOMAIN magnitude) \X (0 .. (d_fft_size - 1)) :
        magnitude[c[1]][c[2]] > ThresholdSpoofing(d_input_power)}

\* C7: with peak = 2 and bit_transition_flag false, when exactly two cells
\* exceed the threshold, in the same Doppler bin at distinct code phases, the
\* dwell ends POSITIVE and reports the weaker one.
C7_AuxiliaryPeakIsTheWeaker ==
    (acq_call = "dwell" /\ d_peak = 2 /\ ~d_bit_transition_flag) =>
        \A c1, c2 \in AboveThreshold :
            (/\ AboveThreshold = {c1, c2}
             /\ c1[1] = c2[1]
             /\ c1[2] % d_samples_per_code # c2[2] % d_samples_per_code
             /\ magnitude[c1[1]][c1[2]] > magnitude[c2[1]][c2[2]]) =>
                /\ d_state = 2
                /\ d_gnss_synchro.Acq_delay_samples = c2[2] % d_samples_per_code
                /\ d_gnss_synchro.Acq_doppler_hz = DopplerOfIndex(c2[1])

\* two peaks are disjoint when they differ in Doppler or are more than
\* 2 * samples_per_code apart in code phase
Disjoint(p1, p2) ==
    \/ p1.doppler # p2.doppler
    \/ Abs(p1.code_phase - p2.code_phase) > 2 * d_samples_per_code

\* the peaks of a ranked list that are disjoint from all peaks selected
\* before them
RECURSIVE DisjointSelection(_, _, _)
DisjointSelection(ranked, n, selected) ==
    IF n > Len(ranked) THEN selected
    ELSE IF \A p \in selected : Disjoint(peaks[ranked[n]], p)
         THEN DisjointSelection(ranked, n + 1, selected \cup {peaks[ranked[n]]})
         ELSE DisjointSelection(ranked, n + 1, selected)

\* C8: in auxiliary-peak mode the reported peak is disjoint from every
\* already-selected peak, and the dwell finds no peak exactly when fewer
\* than `peak` disjoint peaks exist.
C8_DisjointPeakSelection ==
    (acq_call = "dwell" /\ d_peak > 1) =>
        /\ found_peak =>
               \A h \in higher_peaks :
                   \/ h[2] # d_gnss_synchro.Acq_doppler_hz
                   \/ Abs(h[1] - d_gnss_synchro.Acq_delay_samples)
                          > 2 * d_samples_per_code
        /\ ~found_peak <=>
               Cardinality(DisjointSelection(Descending(DOMAIN peaks), 1, {}))
                   < d_peak

\* ======================================================== claims, grid
\* some grid frequency lies within doppler_step / 2 of the frequency f2 / 2
NearGrid(f2) ==
    \E k \in DOMAIN d_grid_doppler_wipeoffs :
        Abs(f2 - 2 * d_grid_doppler_wipeoffs[k]) <= d_doppler_step

\* C9: for every doppler_max >= 0 and doppler_step >= 1, every Doppler in
\* [-doppler_max, doppler_max] (whole and half Hz) lies within
\* doppler_step / 2 of a frequency of the grid built by init().
C9_GridExhaustive ==
    d_num_doppler_bins > 0 =>
        \A f2 \in (-2 * d_doppler_max) .. (2 * d_doppler_max) : NearGrid(f2)

\* ================================================= claims, sample counter
\* C10: in both blocks the sample counter never decreases and equals the
\* number of samples consumed from the input: fft_size per item consumed by
\* the acquisition, the argument of every consume_each in the tracking.
C10_SampleCounterMatchesConsumed ==
    /\ [](/\ d_sample_counter = d_fft_size * acq_consumed
          /\ trk.d_sample_counter = trk_consumed)
    /\ [][/\ d_sample_counter' >= d_sample_counter
          /\ trk.d_sample_counter' >= trk.d_sample_counter]_vars

C10_Witness ==
    /\ acq_call = "idle"
    /\ Len(d_channel_internal_queue) = 0
    /\ acq_activations = 1
    /\ d_sample_counter >= 4 * d_fft_size
    /\ trk_call = "steady"
    /\ ~trk.CADLL_init
    /\ trk.d_sample_counter > 2 * fs_in

\* ======================================================== claims, tracking
\* a step that is a general_work call of the tracking block
TrkCall == trk_consumed' > trk_consumed

\* a general_work call that writes a record to its output
TrkEmits == TrkCall /\ trk_call' \in {"steady", "nan", "disabled"}

\* (sample_counter + rem_code_phase_samples) as the block holds them when the
\* record is built, in 1/Sub samples: the NaN path builds the record after
\* it has advanced d_sample_counter, the other paths before
TimestampWhenBuilt ==
    IF trk_call' = "nan"
    THEN trk'.d_sample_counter * Sub + trk.d_rem_code_phase_samples
    ELSE trk.d_sample_counter * Sub + trk.d_rem_code_phase_samples

\* C11: every record the tracking block emits, in a steady-state, a NaN or a
\* tracking-disabled call, carries the time stamp
\* (sample_counter + rem_code_phase_samples) / fs_in of the values the block
\* holds when the record is built
C11_TimestampOnEveryRecord ==
    [][TrkEmits => trk_out'.Tracking_timestamp = TimestampWhenBuilt]_vars

\* a step that is a call of start_tracking
StartTrackingStep == ~trk.d_enable_tracking /\ trk'.d_enable_tracking

\* C12: after every call of start_tracking, the first one and any one that
\* follows a loss of lock or a stop, pull_in, enable_tracking and CADLL_init
\* are true and the carrier filter, both code filters and both amplitude
\* filters have been initialized
C12_StartTrackingResets ==
    [][StartTrackingStep =>
          /\ trk'.d_pull_in
          /\ trk'.d_enable_tracking
          /\ trk'.CADLL_init
          /\ LoopFilters \subseteq trk'.initialized]_vars

\* a steady-state call in which the lock detector evaluates the lock
LockEvaluation ==
    /\ TrkCall
    /\ trk_call' = "steady"
    /\ lock_hist'.evals = lock_hist.evals + 1

\* loss of lock is declared: message 2 is posted and tracking is disabled
LossDeclared ==
    /\ d_queue' = Append(d_queue, 2)
    /\ ~trk'.d_enable_tracking

\* C13: loss of lock is declared at a lock evaluation if and only if the
\* failure condition held at that evaluation and at the 49 before it, that
\* is, after MAXIMUM_LOCK_FAIL_COUNTER failing evaluations in a row
C13_LossIffFiftyConsecutive ==
    [][LockEvaluation =>
          (LossDeclared <=> lock_hist'.run >= MAXIMUM_LOCK_FAIL_COUNTER)]_vars

\* the steady-state calls the spec allows for a loss of lock
LockLossDeadline == MAXIMUM_LOCK_FAIL_COUNTER * CN0_ESTIMATION_SAMPLES

\* every lock evaluation since start_tracking has failed
EveryEvaluationFailed == lock_hist.run = lock_hist.evals

\* C14: if every lock evaluation fails from carrier_lock_fail_counter = 0 on,
\* the loss of lock is declared within 50 * 20 steady-state calls, and
\* message 2 is posted exactly once for it
C14_LossWithinDeadline ==
    EveryEvaluationFailed =>
        /\ (trk.d_enable_tracking /\ lock_hist.losses = 0) =>
               lock_hist.calls < LockLossDeadline
        /\ lock_hist.losses <= 1
        /\ lock_hist.losses = 1 => d_queue = <<2>>

\* the lock detector trips: a failing evaluation takes the fail counter
\* above MAXIMUM_LOCK_FAIL_COUNTER
LockTrip ==
    /\ LockEvaluation
    /\ lock_hist'.run > 0
    /\ trk.d_carrier_lock_fail_counter + 1 > MAXIMUM_LOCK_FAIL_COUNTER

\* the loop filter and NCO state of the tracking block
LoopState(t) ==
    <<t.d_carrier_doppler_hz, t.d_code_freq_doppler,
      t.d_rem_code_phase_samples, t.d_rem_code_phase_samples_m,
      t.d_current_prn_length_samples, t.d_current_prn_length_samples_m,
      t.d_cn0_estimation_counter, t.d_carrier_lock_fail_counter,
      t.initialized, t.CADLL_init>>

StopTrackingStep ==
    /\ ~TrkCall
    /\ ~StartTrackingStep
    /\ <<trk, d_queue>>' # <<trk, d_queue>>

\* the first general_work call after a stop_tracking: the PRN boundary at
\* which the stop takes effect
FirstCallAfterStop ==
    /\ TrkCall
    /\ trk_call \in {"pull_in", "nan", "steady"}
    /\ trk_call' = "disabled"

\* C16: however stop_tracking interleaves with general_work, enable_tracking
\* is false once both have finished, and the one terminating message of the
\* stop is posted by the general_work call at the next PRN boundary, not
\* inside stop_tracking
C16_StopPostsAtPrnBoundary ==
    [][/\ StopTrackingStep => (~trk'.d_enable_tracking /\ d_queue' = d_queue)
       /\ FirstCallAfterStop => d_queue' = Append(d_queue, 2)]_vars

\* ================================================ claims, control messages
\* a general_work call of the acquisition block that declares its result
AcqDeclares == AcqCall /\ acq_call' \in {"positive", "negative"}

\* C17 as stated: every control message of the acquisition block (1, 2) and
\* of the tracking block (2) is delivered to the channel-level queue and to
\* the global queue
C17_DeliveredToBothQueues ==
    [][/\ \A m \in {1, 2} :
              d_channel_internal_queue' = Append(d_channel_internal_queue, m)
                  => d_queue' = Append(d_queue, m)
       /\ d_queue' = Append(d_queue, 2)
              => d_channel_internal_queue' = Append(d_channel_internal_queue, 2)]_vars

\* C17: every control message of the acquisition block (1, 2) is pushed to
\* the channel-level queue and to no other queue, and every control message
\* of the tracking block (2) is handed to the global queue and to no other
\* queue
C17_EachBlockPostsToItsQueue ==
    [][/\ AcqDeclares =>
              /\ \E m \in {1, 2} :
                     d_channel_internal_queue' = Append(d_channel_internal_queue, m)
              /\ d_queue' = d_queue
       /\ Len(d_channel_internal_queue') > Len(d_channel_internal_queue)
              => AcqDeclares
       /\ d_queue' # d_queue =>
              /\ d_queue' = Append(d_queue, 2)
              /\ ~AcqCall
              /\ d_channel_internal_queue' = d_channel_internal_queue]_vars

\* both blocks have posted a message
C17_Witness ==
    /\ acq_call \in {"positive", "negative"}
    /\ d_queue # <<>>
    /\ trk_call # "none"

\* ========================================================= claims, pull-in
\* the first general_work call after start_tracking
PullInStep == TrkCall /\ trk.d_enable_tracking /\ trk.d_pull_in

\* C18: the first general_work call after start_tracking consumes
\* round(acq_code_phase + (L - (sample_counter - Acq_samplestamp) mod L))
\* samples, L = current_prn_length_samples, clears pull_in and runs no
\* correlation or loop update; afterwards, for a whole code phase and
\* sample_counter >= Acq_samplestamp,
\* sample_counter - Acq_samplestamp - acq_code_phase is a multiple of L
C18_PullInAligns ==
    [][PullInStep =>
          LET L == trk.d_current_prn_length_samples
              delay == trk.d_sample_counter - trk.d_acq_sample_stamp
              phase == trk.d_acq_code_phase_samples
          IN /\ trk_consumed' - trk_consumed
                    = Round(phase + Sub * (L - FMod(delay, L)))
             /\ trk'.d_sample_counter - trk.d_sample_counter
                    = trk_consumed' - trk_consumed
             /\ ~trk'.d_pull_in
             /\ trk'.d_enable_tracking
             /\ LoopState(trk') = LoopState(trk)
             /\ trk_out' = trk_out
             /\ d_queue' = d_queue
             /\ (delay >= 0 /\ phase % Sub = 0) =>
                    (trk'.d_sample_counter - trk.d_acq_sample_stamp
                         - phase \div Sub) % L = 0]_vars

\* a pull-in with a non-zero whole code phase, made after the acquisition's
\* sample stamp, has run
C18_Witness ==
    /\ trk_call = "pull_in"
    /\ trk.d_acq_code_phase_samples > 0
    /\ trk.d_acq_code_phase_samples % Sub = 0
    /\ trk.d_sample_counter > trk.d_acq_sample_stamp + vector_length
    /\ ~trk.d_pull_in

\* ================================================== claims, buffer lengths
\* C19: in every reachable state the PRN lengths of the primary and of the
\* secondary replica, with the 2 * early_late_spc_samples extra samples
\* update_local_code and update_local_code_m write, do not exceed
\* 2 * vector_length, whatever the DLL filters output
C19_LengthsWithinBuffers ==
    /\ EplLoopLength(trk.d_current_prn_length_samples, trk.d_code_freq_doppler)
           <= 2 * vector_length
    /\ EplLoopLength(trk.d_current_prn_length_samples_m, trk.d_code_freq_doppler)
           <= 2 * vector_length

\* ================================================== claims, shared record
\* the fields of the synchronization record the acquisition block owns
AcqFields == {"Acq_delay_samples", "Acq_doppler_hz", "Acq_samplestamp_samples"}

\* the fields of the synchronization record the tracking block is to write
TrackingFields ==
    {"Prompt_I", "Prompt_Q", "Tracking_timestamp_secs", "Carrier_phase_rads",
     "Carrier_Doppler_hz", "Code_phase_secs", "CN0_dB_hz",
     "Flag_valid_tracking"}

\* a step of the tracking block
TrkStep == trkVars' # trkVars

\* C20: the acquisition block modifies only the three Acq_* fields of the
\* shared record; the tracking block never modifies the shared record and
\* itself writes all other fields, Flag_valid_tracking included, in every
\* steady-state record it emits
C20_FrameOfTheSharedRecord ==
    [][/\ \A f \in (DOMAIN d_gnss_synchro) \ AcqFields :
              d_gnss_synchro'[f] = d_gnss_synchro[f]
       /\ TrkStep => d_gnss_synchro' = d_gnss_synchro
       /\ (TrkCall /\ trk_call' = "steady") =>
              TrackingFields \subseteq trk_out'.written]_vars

\* ============================================ claims, acquisition dwells
\* a dwell on a block that holds a NaN sample
AcqNaNDwellStep == AcqDwellStep /\ acq_call' = "dwell_nan"

\* C21: a block that holds a NaN sample is skipped: the dwell is not
\* counted, test_statistics and the Acq_* fields are unchanged and no
\* POSITIVE or NEGATIVE decision is taken on it
C21_NaNBlockSkipped ==
    [][AcqNaNDwellStep =>
          /\ d_well_count' = d_well_count
          /\ d_test_statistics' = d_test_statistics
          /\ d_gnss_synchro' = d_gnss_synchro
          /\ d_state' = 1]_vars

\* ============================================= claims, tracking dump file
\* C22: after a write to the dump file has failed, no later general_work
\* call tries to write to it, and tracking goes on emitting records
C22_DumpDisabledAfterFailure ==
    [][(TrkCall /\ trk.dump_failed) =>
          /\ ~trk'.dump_tried
          /\ trk_call' \in {"steady", "disabled"} => trk_out'.kind = trk_call']_vars

\* ================================================ claims, Doppler grid
\* C24: after init() num_doppler_bins = floor(2 * doppler_max / doppler_step)
\* + 1, grid index k corresponds one-to-one to the frequency
\* -doppler_max + k * doppler_step, and the Doppler the search loop uses for
\* index k is the frequency the wipe-off of index k was built for
C24_GridIndexBijection ==
    d_num_doppler_bins > 0 =>
        /\ d_num_doppler_bins = (2 * d_doppler_max) \div d_doppler_step + 1
        /\ DOMAIN d_grid_doppler_wipeoffs = 0 .. (d_num_doppler_bins - 1)
        /\ \A k \in DOMAIN d_grid_doppler_wipeoffs :
               /\ d_grid_doppler_wipeoffs[k] = k * d_doppler_step - d_doppler_max
               /\ DopplerOfIndex(k) = d_grid_doppler_wipeoffs[k]
        /\ \A k1, k2 \in DOMAIN d_grid_doppler_wipeoffs :
               d_grid_doppler_wipeoffs[k1] = d_grid_doppler_wipeoffs[k2] => k1 = k2

\* a grid of four bins whose step does not divide 2 * doppler_max
C24_Witness ==
    /\ d_num_doppler_bins = 4
    /\ d_doppler_max = 5
    /\ d_doppler_step = 3
    /\ d_grid_doppler_wipeoffs = [k \in 0 .. 3 |-> 3 * k - 5]

\* ====================================== claims, bit-transition mode
\* the largest normalised magnitude of the grid the last dwell searched
GridMaximum(grid) ==
    CHOOSE m \in {grid[k][i] \div MagnitudeScale : k \in DOMAIN grid, i \in 0 .. (d_fft_size - 1)} :
        \A k \in DOMAIN grid : \A i \in DOMAIN grid[k] : grid[k][i] \div MagnitudeScale <= m

\* some cell holding the maximum of the grid has the recorded Acq_* fields
FieldsOfTheMaximum(grid, synchro, counter) ==
    \E k \in DOMAIN grid : \E i \in DOMAIN grid[k] :
        /\ grid[k][i] \div MagnitudeScale = GridMaximum(grid)
        /\ synchro.Acq_delay_samples = i % d_samples_per_code
        /\ synchro.Acq_doppler_hz = d_grid_doppler_wipeoffs[k]
        /\ synchro.Acq_samplestamp_samples = counter

\* mag / input_power of the dwell just made is an ordered value
DwellRatioDefined == acq_call' # "dwell_nan" /\ d_mag' > 0

\* C25: in bit-transition mode with peak <= 1, test_statistics becomes 0 only
\* on the step from state 0 to state 1, no dwell decreases it, after a dwell
\* it is the larger of its old value and mag / input_power of that dwell
\* (hence the largest ratio of the acquisition so far), and the Acq_* fields
\* are replaced, by those of a cell holding the maximum of that dwell,
\* exactly when the dwell raised test_statistics
C25_CoherentTestStatistic ==
    [][(d_bit_transition_flag /\ d_peak <= 1) =>
          /\ (d_test_statistics' = FZero /\ d_test_statistics # FZero) =>
                 (AcqCall /\ d_state = 0 /\ d_state' = 1)
          /\ (AcqCall /\ d_state = 0 /\ d_state' = 1) => d_test_statistics' = FZero
          /\ AcqDwellStep =>
                 /\ ~FLess(d_test_statistics', d_test_statistics)
                 /\ d_test_statistics' =
                        IF DwellRatioDefined /\ FLess(d_test_statistics, FDiv(d_mag', d_input_power'))
                        THEN FDiv(d_mag', d_input_power')
                        ELSE d_test_statistics
                 /\ IF FLess(d_test_statistics, d_test_statistics')
                    THEN FieldsOfTheMaximum(magnitude', d_gnss_synchro', d_sample_counter')
                    ELSE d_gnss_synchro' = d_gnss_synchro]_vars

\* the second dwell of an acquisition found a positive maximum below the one
\* of the first dwell, which was attained in the second Doppler bin
C25_Witness ==
    /\ d_bit_transition_flag
    /\ d_peak <= 1
    /\ acq_call = "dwell"
    /\ d_well_count = 2
    /\ d_num_doppler_bins = 2
    /\ d_mag > 0
    /\ FLess(FDiv(d_mag, d_input_power), d_test_statistics)
    /\ d_gnss_synchro.Acq_samplestamp_samples = d_sample_counter - d_fft_size
    /\ d_gnss_synchro.Acq_doppler_hz = DopplerOfIndex(1)

\* ================================== claims, the maximum of a dwell
\* a dwell on a block without NaN
AcqPlainDwellStep == AcqDwellStep /\ acq_call' = "dwell"

\* the cells of a grid, and the largest |r|^2 over a set of cells (0 if empty)
GridCells(grid) == {<<k, i>> : k \in DOMAIN grid, i \in 0 .. (d_fft_size - 1)}

LargestOver(grid, cells) ==
    IF cells = {} THEN 0
    ELSE CHOOSE m \in {grid[c[1]][c[2]] : c \in cells} :
             \A c \in cells : grid[c[1]][c[2]] <= m

\* the second-highest |r|^2 of a grid: the largest value left when one cell
\* holding the maximum is set aside
SecondLargest(grid) ==
    LET top == CHOOSE c \in GridCells(grid) :
                   grid[c[1]][c[2]] = LargestOver(grid, GridCells(grid))
    IN LargestOver(grid, GridCells(grid) \ {top})

\* C26: at the end of the Doppler loop of a dwell, mag is the largest |r|^2
\* over all Doppler bins and code phases divided by fft_size^2, and
\* mag_2nd_highest is the second-highest such value
C26_MaximumAndSecond ==
    [][AcqPlainDwellStep =>
          /\ d_mag' * fft_normalization_factor = LargestOver(magnitude', GridCells(magnitude'))
          /\ d_mag_2nd_highest' * fft_normalization_factor = SecondLargest(magnitude')]_vars

\* C27: without bit transition and with peak <= 1, after every dwell in
\* which some correlation magnitude is positive, test_statistics is
\* mag / input_power of that dwell, Acq_delay_samples is the index of the
\* global maximum modulo samples_per_code and lies in [0, samples_per_code),
\* Acq_doppler_hz is the grid frequency of the bin holding the maximum and
\* Acq_samplestamp_samples is the sample counter of that dwell
C27_SynchroOfTheMaximum ==
    [][(/\ ~d_bit_transition_flag
        /\ d_peak <= 1
        /\ AcqPlainDwellStep
        /\ LargestOver(magnitude', GridCells(magnitude')) > 0) =>
          /\ d_test_statistics' = FDiv(d_mag', d_input_power')
          /\ FieldsOfTheMaximum(magnitude', d_gnss_synchro', d_sample_counter')
          /\ d_gnss_synchro'.Acq_delay_samples \in 0 .. (d_samples_per_code - 1)
          /\ d_sample_counter' = d_sample_counter + d_fft_size]_vars

\* a dwell over two code periods whose single maximum is at index 3, in the
\* second period
C27_Witness ==
    /\ ~d_bit_transition_flag
    /\ d_peak <= 1
    /\ acq_call = "dwell"
    /\ d_fft_size = 4
    /\ d_samples_per_code = 2
    /\ \A i \in 0 .. 2 : magnitude[0][i] < magnitude[0][3]
    /\ d_gnss_synchro.Acq_delay_samples = 1
    /\ d_gnss_synchro.Acq_samplestamp_samples = d_sample_counter
    /\ d_test_statistics = FDiv(d_mag, d_input_power)

\* ======================================= claims, the peak collection
\* C28: at the end of the Doppler loop, for every Doppler bin k and every
\* index i whose magnitude is above threshold_spoofing, the peak set holds an
\* entry with code phase i mod samples_per_code and the Doppler of bin k
C28_NoPeakLost ==
    acq_call = "dwell" =>
        \A c \in GridCells(magnitude) :
            magnitude[c[1]][c[2]] > ThresholdSpoofing(d_input_power) =>
                \E v \in DOMAIN peaks :
                    /\ peaks[v].code_phase = c[2] % d_samples_per_code
                    /\ peaks[v].doppler = d_grid_doppler_wipeoffs[c[1]]

\* ======================= claims, primary and secondary code NCO
\* C29: after every start_tracking followed by its pull-in call the primary
\* and the secondary code-NCO state agree in all four components:
\* rem_code_phase_samples, current_prn_length_samples, acc_code_phase_secs
\* and sample_counter
C29_NcoStatesEqualAfterPullIn ==
    [][PullInStep =>
          /\ trk'.d_rem_code_phase_samples = trk'.d_rem_code_phase_samples_m
          /\ trk'.d_current_prn_length_samples = trk'.d_current_prn_length_samples_m
          /\ trk'.d_acc_code_phase_secs = trk'.d_acc_code_phase_secs_m
          /\ trk'.d_sample_counter = trk'.d_sample_counter_m]_vars

\* C30: at the end of every general_work call that leaves CADLL_init true,
\* the NaN-sample path included, the secondary replica mirrors the primary:
\* rem_code_phase_samples_m = rem_code_phase_samples,
\* current_prn_length_samples_m = current_prn_length_samples and
\* sample_counter_m = sample_counter
C30_SecondaryMirrorsPrimary ==
    [][(TrkCall /\ trk'.CADLL_init) =>
          /\ trk'.d_rem_code_phase_samples_m = trk'.d_rem_code_phase_samples
          /\ trk'.d_current_prn_length_samples_m = trk'.d_current_prn_length_samples
          /\ trk'.d_sample_counter_m = trk'.d_sample_counter]_vars

\* a general_work call that took the steady-state path
SteadyStep == TrkCall /\ trk_call' = "steady"

\* K_blk_samples of the step, in 1/Sub samples, recovered from the states
\* around it: the code error is what the step added to the primary
\* code-phase accumulator
PrimaryKBlk ==
    PrnSamples(trk'.d_carrier_doppler_hz) + trk.d_rem_code_phase_samples
        + (trk'.d_acc_code_phase_secs - trk.d_acc_code_phase_secs)

\* C31: after every steady-state PRN step current_prn_length_samples is
\* round(K_blk) and rem_code_phase_samples is K_blk minus that length, hence
\* at most half a sample in magnitude, with K_blk = T_prn_samples + previous
\* rem_code_phase_samples + code_error_filt_secs * fs_in
C31_PrimaryNcoRounds ==
    [][SteadyStep =>
          /\ trk'.d_current_prn_length_samples = Round(PrimaryKBlk)
          /\ trk'.d_rem_code_phase_samples =
                 PrimaryKBlk - Sub * trk'.d_current_prn_length_samples
          /\ 2 * Abs(trk'.d_rem_code_phase_samples) <= Sub]_vars

\* a steady-state step that left the remainder at exactly half a sample,
\* after a step that had left a non-zero remainder
C31_Witness ==
    /\ trk_call = "steady"
    /\ 2 * Abs(trk.d_rem_code_phase_samples) = Sub
    /\ trk.d_acc_code_phase_secs # 0
    /\ lock_hist.calls >= 2

\* K_blk_samples_m of a step made with CADLL_init false, in 1/Sub samples
SecondaryKBlk ==
    PrnSamples(trk'.d_carrier_doppler_hz) + trk.d_rem_code_phase_samples_m
        + (trk'.d_acc_code_phase_secs_m - trk.d_acc_code_phase_secs_m)

\* C32: after every steady-state PRN step with CADLL_init false,
\* current_prn_length_samples_m is round(K_blk_m) and
\* rem_code_phase_samples_m is K_blk_m minus that length, hence at most half
\* a sample in magnitude, with K_blk_m = T_prn_samples + previous
\* rem_code_phase_samples_m + code_error_filt_secs_m * fs_in
C32_SecondaryNcoRounds ==
    [][(SteadyStep /\ ~trk.CADLL_init) =>
          /\ trk'.d_current_prn_length_samples_m = Round(SecondaryKBlk)
          /\ trk'.d_rem_code_phase_samples_m =
                 SecondaryKBlk - Sub * trk'.d_current_prn_length_samples_m
          /\ 2 * Abs(trk'.d_rem_code_phase_samples_m) <= Sub]_vars

\* ============================================ claims, the promotion
\* C33: CADLL_init changes only from true to false and only in a
\* steady-state step whose emitted Tracking_timestamp_secs is greater than 1;
\* that step leaves rem_code_phase_samples_m = rem_code_phase_samples - 27,
\* the primary value computed in the step, and every later call that
\* correlates uses the six-correlator CADLL path
C33_OneShotPromotion ==
    [][
        /\ trk'.CADLL_init # trk.CADLL_init =>
               /\ trk.CADLL_init
               /\ ~trk'.CADLL_init
               /\ SteadyStep
               /\ trk_out'.kind = "steady"
               /\ trk_out'.Tracking_timestamp > fs_in * Sub
               /\ trk'.d_rem_code_phase_samples_m =
                      trk'.d_rem_code_phase_samples - 27 * Sub
        /\ (TrkCall /\ trk_call' \in {"steady", "nan"} /\ ~trk.CADLL_init) =>
               trk'.correlation = "CADLL"
    ]_vars

\* a steady-state call made after the promotion has correlated on the
\* CADLL path, the secondary remainder 27 samples behind the primary
C33_Witness ==
    /\ trk_call = "steady"
    /\ ~trk.CADLL_init
    /\ trk.correlation = "CADLL"
    /\ trk.d_rem_code_phase_samples_m < -26 * Sub

\* ======================================= claims, local code replicas
\* a general_work call that generated the local replicas and correlated
CorrelatingStep == TrkCall /\ trk_call' \in {"steady", "nan"}

\* C34: after start_tracking ca_code[0] is the last chip and
\* ca_code[CODE_LENGTH + 1] is the first chip, and every chip index that
\* update_local_code and update_local_code_m compute lies in
\* [0, CODE_LENGTH + 1], for all reachable remainders and code frequencies
\* and every configured early-late spacing
C34_ChipIndicesInRange ==
    [][
        /\ StartTrackingStep =>
               \A code \in [1 .. GPS_L1_CA_CODE_LENGTH_CHIPS -> {-1, 1}] :
                   /\ CaCodeAfterStart(code)[0] = code[GPS_L1_CA_CODE_LENGTH_CHIPS]
                   /\ CaCodeAfterStart(code)[GPS_L1_CA_CODE_LENGTH_CHIPS + 1] = code[1]
        /\ CorrelatingStep =>
               (LocalCodeIndices(trk) \cup LocalCodeIndices_m(trk))
                   \subseteq 0 .. (GPS_L1_CA_CODE_LENGTH_CHIPS + 1)
    ]_vars

\* ============================================== claims, loop filters
\* C35: a general_work call that emits a steady-state record runs the PLL
\* filter, the primary DLL filter and the primary amplitude filter exactly
\* once each, and the secondary DLL and amplitude filters exactly once each
\* if CADLL_init is false and not at all if it is true; a pull-in call, a
\* NaN-sample call and a call with tracking disabled run no loop filter
C35_FiltersOncePerPeriod ==
    [][
        /\ SteadyStep =>
               /\ trk_out'.kind = "steady"
               /\ \A f \in {"carrier", "code", "amplitude"} :
                      trk'.filter_updates[f] = 1
               /\ \A f \in {"code_m", "amplitude_m"} :
                      trk'.filter_updates[f] = IF trk.CADLL_init THEN 0 ELSE 1
        /\ (TrkCall /\ trk_call' \in {"pull_in", "nan", "disabled"}) =>
               \A f \in LoopFilters : trk'.filter_updates[f] = 0
    ]_vars

\* a steady-state call in CADLL mode has run all five filters, after a
\* NaN-sample call of the same session
C35_Witness ==
    /\ trk_call = "steady"
    /\ \A f \in LoopFilters : trk.filter_updates[f] = 1
    /\ trk.d_sample_counter # trk.d_sample_counter_m
    /\ trk.d_enable_tracking

\* ================================ claims, reprojected code phase
\* C36: after start_tracking the reprojected acquisition code phase
\* acq_code_phase_samples lies in [0, T_prn_mod_samples), for every
\* Acq_delay_samples in [0, samples per code), every Acq_doppler_hz of
\* either sign and every non-negative acquisition-to-tracking difference
C36_ReprojectedPhaseInRange ==
    [][(/\ StartTrackingStep
        /\ d_gnss_synchro.Acq_delay_samples \in 0 .. (vector_length - 1)
        /\ trk.d_sample_counter >= d_gnss_synchro.Acq_samplestamp_samples) =>
          LET phase == CorrectedAcqPhaseExact(d_gnss_synchro.Acq_delay_samples,
                           d_gnss_synchro.Acq_doppler_hz,
                           trk.d_sample_counter - d_gnss_synchro.Acq_samplestamp_samples)
          IN /\ trk'.d_acq_code_phase_samples =
                    RoundDiv(Sub * phase, GPS_L1_FREQ_HZ + d_gnss_synchro.Acq_doppler_hz)
             /\ phase >= 0
             /\ phase < PrnModExact]_vars

\* C37: in auxiliary-peak mode (d_peak > 1) without bit_transition_flag
\* every dwell ends in a decision: POSITIVE exactly when an auxiliary peak
\* was selected, whose test statistic then exceeds the threshold, and
\* NEGATIVE otherwise; the block never stays in DWELL, whatever d_max_dwells
C37_AuxiliaryDwellDecides ==
    [][
        (AcqDwellStep /\ d_peak > 1 /\ ~d_bit_transition_flag) =>
           /\ d_state' \in {2, 3}
           /\ d_state' = 2 <=> found_peak'
           /\ found_peak' => FGreater(d_test_statistics', d_threshold)
    ]_vars

C37_Witness ==
    /\ acq_call = "dwell"
    /\ d_peak > 1
    /\ ~d_bit_transition_flag
    /\ found_peak
    /\ d_state = 2
    /\ d_well_count < d_max_dwells

\* C38: every general_work call of the tracking block, each of which
\* returns 1, has written the output record during that call: the record
\* handed downstream is the one the branch taken by the call has built
C38_ReturnedRecordWasWritten ==
    [][TrkCall => trk_out'.kind = trk_call']_vars

\* C39: at every lock evaluation the CN0_ESTIMATION_SAMPLES slots of the
\* prompt buffer hold the outputs of the CN0_ESTIMATION_SAMPLES steady-state
\* calls before the evaluating one, none skipped, and every one of them was
\* computed after the most recent start_tracking
C39_EvaluatedPromptsAreCurrent ==
    [][LockEvaluation =>
          /\ {trk.d_Prompt_buffer[k] : k \in 0 .. (CN0_ESTIMATION_SAMPLES - 1)}
                 = (trk.prompts_computed - CN0_ESTIMATION_SAMPLES + 1) .. trk.prompts_computed
          /\ \A k \in 0 .. (CN0_ESTIMATION_SAMPLES - 1) :
                 trk.d_Prompt_buffer[k] > trk.prompts_at_start]_vars

\* C40: at the end of every general_work call of the tracking block
\* 0 <= d_carrier_lock_fail_counter <= MAXIMUM_LOCK_FAIL_COUNTER and
\* 0 <= d_cn0_estimation_counter <= CN0_ESTIMATION_SAMPLES; a lock evaluation
\* changes the fail counter by at most 1 unless it trips, a trip and
\* start_tracking reset it to 0, and nothing else changes it
C40_LockCountersInRange ==
    [][
        /\ trk'.d_carrier_lock_fail_counter \in 0 .. MAXIMUM_LOCK_FAIL_COUNTER
        /\ trk'.d_cn0_estimation_counter \in 0 .. CN0_ESTIMATION_SAMPLES
        /\ (LockEvaluation /\ ~LockTrip) =>
               Abs(trk'.d_carrier_lock_fail_counter
                       - trk.d_carrier_lock_fail_counter) <= 1
        /\ LockTrip => trk'.d_carrier_lock_fail_counter = 0
        /\ StartTrackingStep => trk'.d_carrier_lock_fail_counter = 0
        /\ ~(LockEvaluation \/ StartTrackingStep) =>
               trk'.d_carrier_lock_fail_counter = trk.d_carrier_lock_fail_counter
    ]_vars

\* the lock detector has tripped after the fail counter went up to
\* MAXIMUM_LOCK_FAIL_COUNTER and down again on the way: the call that
\* tripped has left both counters at zero
C40_Witness ==
    /\ trk_call = "steady"
    /\ lock_hist.losses = 1
    /\ lock_hist.evals > lock_hist.run + 1
    /\ lock_hist.run >= MAXIMUM_LOCK_FAIL_COUNTER
    /\ ~trk.d_enable_tracking
    /\ trk.d_carrier_lock_fail_counter = 0
    /\ trk.d_cn0_estimation_counter = 0

====
